---- MODULE Spec2Model ----
(***************************************************************************)
(* The form auto-fill core of the tax agent (src/app11.py): the user-data  *)
(* parser, the flat-label enumerator, the field mapper's response parsing, *)
(* the data reconstructor, the flat-form filler, the AcroForm filler and   *)
(* the fill operation of main() that runs them; and, of the form finder    *)
(* (src/app.py), the PDF fetcher, the search history and the choice of     *)
(* another form.                                                           *)
(*                                                                         *)
(* A Python str is a sequence of one-character strings, a dict is a        *)
(* function, a Python object is a record [t, s, n] (type tag, text,        *)
(* number).                                                                *)
(***************************************************************************)
EXTENDS Integers, Sequences, FiniteSets, TLC

VARIABLES pc, fault, form_pages, labels, user_text, raw_user_data, content,
          field_mapping, final_user_data, coords_map, stamped,
          form_fields, acro_fields, uploaded_file, acro_text, acro_user_data, filled_pdf,
          label_list, form_resp, fetch, server, session_state, added, ops, disk

vars == <<pc, fault, form_pages, labels, user_text, raw_user_data, content,
          field_mapping, final_user_data, coords_map, stamped,
          form_fields, acro_fields, uploaded_file, acro_text, acro_user_data, filled_pdf,
          label_list, form_resp, fetch, server, session_state, added, ops, disk>>

\* the state of the AcroForm branch of main() and of the upload: the form's fields page
\* by page, acro_fields, uploaded_file, and the branch's text, user_data and filled_pdf
acro == <<form_fields, acro_fields, uploaded_file, acro_text, acro_user_data, filled_pdf>>

\* the state outside one fill operation: the response of the form download, the PDF
\* fetcher and the server it talks to, st.session_state with the entries ever added to
\* its history, and the fill operations that run at the same time on one disk
other == <<form_resp, fetch, server, session_state, added, ops, disk>>

(***************************************************************************)
(* Characters and str methods                                              *)
(***************************************************************************)
UpperLetters == <<"A","B","C","D","E","F","G","H","I","J","K","L","M",
                  "N","O","P","Q","R","S","T","U","V","W","X","Y","Z">>
LowerLetters == <<"a","b","c","d","e","f","g","h","i","j","k","l","m",
                  "n","o","p","q","r","s","t","u","v","w","x","y","z">>
Letters == {UpperLetters[i] : i \in DOMAIN UpperLetters} \cup {LowerLetters[i] : i \in DOMAIN LowerLetters}
DigitChars == <<"0","1","2","3","4","5","6","7","8","9">>
Digits == {DigitChars[i] : i \in DOMAIN DigitChars}
\* the characters \s and str.strip() treat as whitespace, of the modelled alphabet
Whitespace == {" ", "\t"}
\* the whitespace of str.strip() and str.split(): a line break too
Blanks == Whitespace \cup {"\n"}
\* "•" (U+2022) and "：" (U+FF1A), each one character
Bullet == "<bullet>"
FullWidthColon == "<fwcolon>"

Range(s) == {s[i] : i \in DOMAIN s}

RECURSIVE Concat(_)
Concat(ss) == IF ss = <<>> THEN <<>> ELSE Head(ss) \o Concat(Tail(ss))

\* str.lower() of one character
LowerChar(c) == IF \E i \in DOMAIN UpperLetters : UpperLetters[i] = c
                THEN LowerLetters[CHOOSE i \in DOMAIN UpperLetters : UpperLetters[i] = c]
                ELSE c
Lower(s) == [i \in DOMAIN s |-> LowerChar(s[i])]

\* the last index of the maximal run of characters of cs that starts at index i (i-1: no run)
RECURSIVE RunEnd(_, _, _)
RunEnd(s, i, cs) == IF i <= Len(s) /\ s[i] \in cs THEN RunEnd(s, i + 1, cs) ELSE i - 1

\* the first index of the maximal run of characters of cs that ends at index i (i+1: no run)
RECURSIVE RunStart(_, _, _)
RunStart(s, i, cs) == IF i >= 1 /\ s[i] \in cs THEN RunStart(s, i - 1, cs) ELSE i + 1

\* str.strip(chars)
StripChars(s, cs) ==
    LET a == RunEnd(s, 1, cs) + 1
        b == RunStart(s, Len(s), cs) - 1
    IN IF a > b THEN <<>> ELSE SubSeq(s, a, b)
\* str.strip()
Strip(s) == StripChars(s, Blanks)

\* str.split(): the maximal runs of non-whitespace characters
RECURSIVE SplitFrom(_, _)
SplitFrom(s, i) ==
    IF i > Len(s) THEN <<>>
    ELSE IF s[i] \in Blanks THEN SplitFrom(s, i + 1)
    ELSE LET e == RunEnd(s, i, Range(s) \ Blanks)
         IN <<SubSeq(s, i, e)>> \o SplitFrom(s, e + 1)
Split(s) == SplitFrom(s, 1)

\* " ".join(words)
RECURSIVE JoinSpace(_)
JoinSpace(ws) ==
    IF ws = <<>> THEN <<>>
    ELSE IF Len(ws) = 1 THEN ws[1]
    ELSE ws[1] \o <<" ">> \o JoinSpace(Tail(ws))

\* str.splitlines(), the line boundary of the modelled alphabet being "\n"
RECURSIVE SplitLinesFrom(_, _)
SplitLinesFrom(s, i) ==
    IF i > Len(s) THEN <<>>
    ELSE LET e == RunEnd(s, i, Range(s) \ {"\n"})
         IN <<SubSeq(s, i, e)>> \o SplitLinesFrom(s, e + 2)
SplitLines(s) == SplitLinesFrom(s, 1)

\* sub in s (substring test)
Contains(s, sub) ==
    \E i \in 1..(Len(s) - Len(sub) + 1) : SubSeq(s, i, i + Len(sub) - 1) = sub

(***************************************************************************)
(* Python objects                                                          *)
(***************************************************************************)
PyStr(s) == [t |-> "str", s |-> s, n |-> 0]
PyBytes(s) == [t |-> "bytes", s |-> s, n |-> 0]
PyInt(n) == [t |-> "int", s |-> <<>>, n |-> n]
PyBool(b) == [t |-> "bool", s |-> <<>>, n |-> IF b THEN 1 ELSE 0]
PyNone == [t |-> "none", s |-> <<>>, n |-> 0]
\* an object of the builtins module that is no str, number or None (a function, a
\* type, Ellipsis, ...), by its own name, or by the name bound to it when it has none
PyBuiltin(name) == [t |-> "builtin", s |-> name, n |-> 0]
\* a nested dict or set display: its contents are not kept
PyContainer(kind) == [t |-> kind, s |-> <<>>, n |-> 0]
\* the evaluation raised an Exception
PyRaise == [t |-> "raise", s |-> <<>>, n |-> 0]

\* bool(v)
Truthy(v) ==
    CASE v.t \in {"str", "bytes"} -> v.s # <<>>
      [] v.t \in {"int", "bool"} -> v.n # 0
      [] v.t = "builtin" -> TRUE
      [] OTHER -> FALSE

EmptyDict == [k \in {} |-> PyNone]
EmptyData == [k \in {} |-> <<>>]

(***************************************************************************)
(* eval(expr, {}, raw_user_data), src/app11.py line 219, for expressions   *)
(* over the alphabet letters, digits, "_", space, tab, line break, "+",    *)
(* "'" and '"': names, decimal integers, string literals, unary and binary *)
(* "+".  Every Exception (SyntaxError, NameError, TypeError) is the one    *)
(* outcome PyRaise, as the caller catches Exception.  A reserved word is   *)
(* no name: it raises wherever the grammar has a name.  The expressions    *)
(* the reserved words build ("not a", "a or b", "a if b else c", ...), a   *)
(* digit directly followed by a letter that continues a number ("1e2",     *)
(* "0x1", "1j", "1_0") and a brace inside a formatted string literal are   *)
(* outside the modelled grammar.                                           *)
(***************************************************************************)
Quotes == {"'", "\""}
IdentStart == Letters \cup {"_"}
IdentChars == Letters \cup Digits \cup {"_"}
\* the string-literal prefixes, lower-cased: plain, formatted (f-string) and bytes
StrPrefixes == {<<"r">>, <<"u">>}
FormatPrefixes == {<<"f">>, <<"f","r">>, <<"r","f">>}
BytesPrefixes == {<<"b">>, <<"b","r">>, <<"r","b">>}

\* the names of the builtins module that eval() binds to an object in an empty
\* globals dict (functions, types, exceptions, Ellipsis, NotImplemented, ...), and
\* "__builtins__", which eval() puts into the globals itself; the names bound to a
\* str or a bool are in PyName
Builtins == {
    <<"A","r","i","t","h","m","e","t","i","c","E","r","r","o","r">>,
    <<"A","s","s","e","r","t","i","o","n","E","r","r","o","r">>,
    <<"A","t","t","r","i","b","u","t","e","E","r","r","o","r">>,
    <<"B","a","s","e","E","x","c","e","p","t","i","o","n">>,
    <<"B","a","s","e","E","x","c","e","p","t","i","o","n","G","r","o","u","p">>,
    <<"B","l","o","c","k","i","n","g","I","O","E","r","r","o","r">>,
    <<"B","r","o","k","e","n","P","i","p","e","E","r","r","o","r">>,
    <<"B","u","f","f","e","r","E","r","r","o","r">>,
    <<"B","y","t","e","s","W","a","r","n","i","n","g">>,
    <<"C","h","i","l","d","P","r","o","c","e","s","s","E","r","r","o","r">>,
    <<"C","o","n","n","e","c","t","i","o","n","A","b","o","r","t","e","d","E","r","r","o","r">>,
    <<"C","o","n","n","e","c","t","i","o","n","E","r","r","o","r">>,
    <<"C","o","n","n","e","c","t","i","o","n","R","e","f","u","s","e","d","E","r","r","o","r">>,
    <<"C","o","n","n","e","c","t","i","o","n","R","e","s","e","t","E","r","r","o","r">>,
    <<"D","e","p","r","e","c","a","t","i","o","n","W","a","r","n","i","n","g">>,
    <<"E","O","F","E","r","r","o","r">>, <<"E","l","l","i","p","s","i","s">>,
    <<"E","n","c","o","d","i","n","g","W","a","r","n","i","n","g">>,
    <<"E","n","v","i","r","o","n","m","e","n","t","E","r","r","o","r">>,
    <<"E","x","c","e","p","t","i","o","n">>,
    <<"E","x","c","e","p","t","i","o","n","G","r","o","u","p">>,
    <<"F","i","l","e","E","x","i","s","t","s","E","r","r","o","r">>,
    <<"F","i","l","e","N","o","t","F","o","u","n","d","E","r","r","o","r">>,
    <<"F","l","o","a","t","i","n","g","P","o","i","n","t","E","r","r","o","r">>,
    <<"F","u","t","u","r","e","W","a","r","n","i","n","g">>,
    <<"G","e","n","e","r","a","t","o","r","E","x","i","t">>, <<"I","O","E","r","r","o","r">>,
    <<"I","m","p","o","r","t","E","r","r","o","r">>,
    <<"I","m","p","o","r","t","W","a","r","n","i","n","g">>,
    <<"I","n","d","e","n","t","a","t","i","o","n","E","r","r","o","r">>,
    <<"I","n","d","e","x","E","r","r","o","r">>,
    <<"I","n","t","e","r","r","u","p","t","e","d","E","r","r","o","r">>,
    <<"I","s","A","D","i","r","e","c","t","o","r","y","E","r","r","o","r">>,
    <<"K","e","y","E","r","r","o","r">>,
    <<"K","e","y","b","o","a","r","d","I","n","t","e","r","r","u","p","t">>,
    <<"L","o","o","k","u","p","E","r","r","o","r">>,
    <<"M","e","m","o","r","y","E","r","r","o","r">>,
    <<"M","o","d","u","l","e","N","o","t","F","o","u","n","d","E","r","r","o","r">>,
    <<"N","a","m","e","E","r","r","o","r">>,
    <<"N","o","t","A","D","i","r","e","c","t","o","r","y","E","r","r","o","r">>,
    <<"N","o","t","I","m","p","l","e","m","e","n","t","e","d">>,
    <<"N","o","t","I","m","p","l","e","m","e","n","t","e","d","E","r","r","o","r">>,
    <<"O","S","E","r","r","o","r">>, <<"O","v","e","r","f","l","o","w","E","r","r","o","r">>,
    <<"P","e","n","d","i","n","g","D","e","p","r","e","c","a","t","i","o","n","W","a","r","n","i","n","g">>,
    <<"P","e","r","m","i","s","s","i","o","n","E","r","r","o","r">>,
    <<"P","r","o","c","e","s","s","L","o","o","k","u","p","E","r","r","o","r">>,
    <<"R","e","c","u","r","s","i","o","n","E","r","r","o","r">>,
    <<"R","e","f","e","r","e","n","c","e","E","r","r","o","r">>,
    <<"R","e","s","o","u","r","c","e","W","a","r","n","i","n","g">>,
    <<"R","u","n","t","i","m","e","E","r","r","o","r">>,
    <<"R","u","n","t","i","m","e","W","a","r","n","i","n","g">>,
    <<"S","t","o","p","A","s","y","n","c","I","t","e","r","a","t","i","o","n">>,
    <<"S","t","o","p","I","t","e","r","a","t","i","o","n">>,
    <<"S","y","n","t","a","x","E","r","r","o","r">>,
    <<"S","y","n","t","a","x","W","a","r","n","i","n","g">>,
    <<"S","y","s","t","e","m","E","r","r","o","r">>,
    <<"S","y","s","t","e","m","E","x","i","t">>, <<"T","a","b","E","r","r","o","r">>,
    <<"T","i","m","e","o","u","t","E","r","r","o","r">>,
    <<"T","y","p","e","E","r","r","o","r">>,
    <<"U","n","b","o","u","n","d","L","o","c","a","l","E","r","r","o","r">>,
    <<"U","n","i","c","o","d","e","D","e","c","o","d","e","E","r","r","o","r">>,
    <<"U","n","i","c","o","d","e","E","n","c","o","d","e","E","r","r","o","r">>,
    <<"U","n","i","c","o","d","e","E","r","r","o","r">>,
    <<"U","n","i","c","o","d","e","T","r","a","n","s","l","a","t","e","E","r","r","o","r">>,
    <<"U","n","i","c","o","d","e","W","a","r","n","i","n","g">>,
    <<"U","s","e","r","W","a","r","n","i","n","g">>,
    <<"V","a","l","u","e","E","r","r","o","r">>, <<"W","a","r","n","i","n","g">>,
    <<"Z","e","r","o","D","i","v","i","s","i","o","n","E","r","r","o","r">>,
    <<"_","_","b","u","i","l","d","_","c","l","a","s","s","_","_">>,
    <<"_","_","b","u","i","l","t","i","n","s","_","_">>,
    <<"_","_","i","m","p","o","r","t","_","_">>, <<"_","_","l","o","a","d","e","r","_","_">>,
    <<"_","_","s","p","e","c","_","_">>, <<"a","b","s">>, <<"a","i","t","e","r">>,
    <<"a","l","l">>, <<"a","n","e","x","t">>, <<"a","n","y">>, <<"a","s","c","i","i">>,
    <<"b","i","n">>, <<"b","o","o","l">>, <<"b","r","e","a","k","p","o","i","n","t">>,
    <<"b","y","t","e","a","r","r","a","y">>, <<"b","y","t","e","s">>,
    <<"c","a","l","l","a","b","l","e">>, <<"c","h","r">>,
    <<"c","l","a","s","s","m","e","t","h","o","d">>, <<"c","o","m","p","i","l","e">>,
    <<"c","o","m","p","l","e","x">>, <<"c","o","p","y","r","i","g","h","t">>,
    <<"c","r","e","d","i","t","s">>, <<"d","e","l","a","t","t","r">>, <<"d","i","c","t">>,
    <<"d","i","r">>, <<"d","i","v","m","o","d">>, <<"e","n","u","m","e","r","a","t","e">>,
    <<"e","v","a","l">>, <<"e","x","e","c">>, <<"e","x","i","t">>, <<"f","i","l","t","e","r">>,
    <<"f","l","o","a","t">>, <<"f","o","r","m","a","t">>,
    <<"f","r","o","z","e","n","s","e","t">>, <<"g","e","t","a","t","t","r">>,
    <<"g","l","o","b","a","l","s">>, <<"h","a","s","a","t","t","r">>, <<"h","a","s","h">>,
    <<"h","e","l","p">>, <<"h","e","x">>, <<"i","d">>, <<"i","n","p","u","t">>,
    <<"i","n","t">>, <<"i","s","i","n","s","t","a","n","c","e">>,
    <<"i","s","s","u","b","c","l","a","s","s">>, <<"i","t","e","r">>, <<"l","e","n">>,
    <<"l","i","c","e","n","s","e">>, <<"l","i","s","t">>, <<"l","o","c","a","l","s">>,
    <<"m","a","p">>, <<"m","a","x">>, <<"m","e","m","o","r","y","v","i","e","w">>,
    <<"m","i","n">>, <<"n","e","x","t">>, <<"o","b","j","e","c","t">>, <<"o","c","t">>,
    <<"o","p","e","n">>, <<"o","r","d">>, <<"p","o","w">>, <<"p","r","i","n","t">>,
    <<"p","r","o","p","e","r","t","y">>, <<"q","u","i","t">>, <<"r","a","n","g","e">>,
    <<"r","e","p","r">>, <<"r","e","v","e","r","s","e","d">>, <<"r","o","u","n","d">>,
    <<"s","e","t">>, <<"s","e","t","a","t","t","r">>, <<"s","l","i","c","e">>,
    <<"s","o","r","t","e","d">>, <<"s","t","a","t","i","c","m","e","t","h","o","d">>,
    <<"s","t","r">>, <<"s","u","m">>, <<"s","u","p","e","r">>, <<"t","u","p","l","e">>,
    <<"t","y","p","e">>, <<"v","a","r","s">>, <<"z","i","p">>}

\* builtins.__doc__
BuiltinsDoc ==
    <<"B","u","i","l","t","-","i","n"," ","f","u","n","c","t">>
    \o <<"i","o","n","s",","," ","t","y","p","e","s",","," ","e">>
    \o <<"x","c","e","p","t","i","o","n","s",","," ","a","n","d">>
    \o <<" ","o","t","h","e","r"," ","o","b","j","e","c","t","s">>
    \o <<".","\n","\n","T","h","i","s"," ","m","o","d","u","l","e">>
    \o <<" ","p","r","o","v","i","d","e","s"," ","d","i","r","e">>
    \o <<"c","t"," ","a","c","c","e","s","s"," ","t","o"," ","a">>
    \o <<"l","l"," ","'","b","u","i","l","t","-","i","n","'","\n">>
    \o <<"i","d","e","n","t","i","f","i","e","r","s"," ","o","f">>
    \o <<" ","P","y","t","h","o","n",";"," ","f","o","r"," ","e">>
    \o <<"x","a","m","p","l","e",","," ","b","u","i","l","t","i">>
    \o <<"n","s",".","l","e","n"," ","i","s","\n","t","h","e"," ">>
    \o <<"f","u","l","l"," ","n","a","m","e"," ","f","o","r"," ">>
    \o <<"t","h","e"," ","b","u","i","l","t","-","i","n"," ","f">>
    \o <<"u","n","c","t","i","o","n"," ","l","e","n","(",")",".">>
    \o <<"\n","\n","T","h","i","s"," ","m","o","d","u","l","e"," ">>
    \o <<"i","s"," ","n","o","t"," ","n","o","r","m","a","l","l">>
    \o <<"y"," ","a","c","c","e","s","s","e","d"," ","e","x","p">>
    \o <<"l","i","c","i","t","l","y"," ","b","y"," ","m","o","s">>
    \o <<"t","\n","a","p","p","l","i","c","a","t","i","o","n","s">>
    \o <<","," ","b","u","t"," ","c","a","n"," ","b","e"," ","u">>
    \o <<"s","e","f","u","l"," ","i","n"," ","m","o","d","u","l">>
    \o <<"e","s"," ","t","h","a","t"," ","p","r","o","v","i","d">>
    \o <<"e","\n","o","b","j","e","c","t","s"," ","w","i","t","h">>
    \o <<" ","t","h","e"," ","s","a","m","e"," ","n","a","m","e">>
    \o <<" ","a","s"," ","a"," ","b","u","i","l","t","-","i","n">>
    \o <<" ","v","a","l","u","e",","," ","b","u","t"," ","i","n">>
    \o <<"\n","w","h","i","c","h"," ","t","h","e"," ","b","u","i">>
    \o <<"l","t","-","i","n"," ","o","f"," ","t","h","a","t"," ">>
    \o <<"n","a","m","e"," ","i","s"," ","a","l","s","o"," ","n">>
    \o <<"e","e","d","e","d",".">>

Tok(k, s) == [k |-> k, s |-> s]
BadTok == Tok("bad", <<>>)

\* the index of the first occurrence of character q at or after index i (0: none)
RECURSIVE Find(_, _, _)
Find(s, i, q) == IF i > Len(s) THEN 0 ELSE IF s[i] = q THEN i ELSE Find(s, i + 1, q)

\* the index of the first q q q at or after index i (0: none)
RECURSIVE FindTriple(_, _, _)
FindTriple(s, i, q) ==
    IF i + 2 > Len(s) THEN 0
    ELSE IF s[i] = q /\ s[i + 1] = q /\ s[i + 2] = q THEN i
    ELSE FindTriple(s, i + 1, q)

\* the body of the string literal whose opening quote is at index i: [ok, s, next];
\* a literal with one quote ends before the line does, a triple-quoted one need not
StringAt(s, i) ==
    LET q == s[i]
        triple == i + 2 <= Len(s) /\ s[i + 1] = q /\ s[i + 2] = q
        c == IF triple THEN FindTriple(s, i + 3, q) ELSE Find(s, i + 1, q)
    IN IF c = 0 THEN [ok |-> FALSE, s |-> <<>>, next |-> Len(s) + 1]
       ELSE IF triple THEN [ok |-> TRUE, s |-> SubSeq(s, i + 3, c - 1), next |-> c + 3]
       ELSE IF "\n" \in Range(SubSeq(s, i + 1, c - 1))
       THEN [ok |-> FALSE, s |-> <<>>, next |-> Len(s) + 1]
       ELSE [ok |-> TRUE, s |-> SubSeq(s, i + 1, c - 1), next |-> c + 1]

\* the tokens of a Python expression from index i on, depth being the number of open
\* braces; a lexical error ends them with BadTok.  A line break inside braces is
\* skipped; outside them it ends the logical line (token "newline"), and the line
\* after it is blank, or starts at the margin, or is an IndentationError
RECURSIVE PyTokens(_, _, _)
PyTokens(s, i, depth) ==
    IF i > Len(s) THEN <<>>
    ELSE IF s[i] \in Whitespace THEN PyTokens(s, i + 1, depth)
    ELSE IF s[i] = "\n" THEN
        LET e == RunEnd(s, i + 1, Whitespace)
        IN IF depth > 0 THEN PyTokens(s, i + 1, depth)
           ELSE IF e + 1 > Len(s) THEN (IF e > i THEN <<BadTok>> ELSE <<Tok("newline", <<>>)>>)
           ELSE IF s[e + 1] = "\n" THEN <<Tok("newline", <<>>)>> \o PyTokens(s, e + 1, 0)
           ELSE IF e > i THEN <<BadTok>>
           ELSE <<Tok("newline", <<>>)>> \o PyTokens(s, i + 1, 0)
    ELSE IF s[i] = "+" THEN <<Tok("plus", <<>>)>> \o PyTokens(s, i + 1, depth)
    ELSE IF s[i] = "{" THEN <<Tok(s[i], <<>>)>> \o PyTokens(s, i + 1, depth + 1)
    ELSE IF s[i] = "}"
    THEN <<Tok(s[i], <<>>)>> \o PyTokens(s, i + 1, IF depth > 0 THEN depth - 1 ELSE 0)
    ELSE IF s[i] \in {":", ","} THEN <<Tok(s[i], <<>>)>> \o PyTokens(s, i + 1, depth)
    ELSE IF s[i] \in IdentStart THEN
        LET e == RunEnd(s, i, IdentChars)
            name == SubSeq(s, i, e)
            pre == Lower(name)
        IN IF /\ e < Len(s)
              /\ s[e + 1] \in Quotes
              /\ pre \in StrPrefixes \cup FormatPrefixes \cup BytesPrefixes
           THEN LET lit == StringAt(s, e + 1)
                IN IF lit.ok
                   THEN <<Tok(IF pre \in BytesPrefixes THEN "bytes"
                              ELSE IF pre \in FormatPrefixes THEN "fstr" ELSE "str", lit.s)>>
                        \o PyTokens(s, lit.next, depth)
                   ELSE <<BadTok>>
           ELSE <<Tok("name", name)>> \o PyTokens(s, e + 1, depth)
    ELSE IF s[i] \in Digits THEN
        LET e == RunEnd(s, i, Digits)
            num == SubSeq(s, i, e)
        IN IF (e < Len(s) /\ s[e + 1] \in IdentStart)
              \/ (Len(num) > 1 /\ num[1] = "0" /\ Range(num) # {"0"})
           THEN <<BadTok>>
           ELSE <<Tok("num", num)>> \o PyTokens(s, e + 1, depth)
    ELSE IF s[i] \in Quotes THEN
        LET lit == StringAt(s, i)
        IN IF lit.ok THEN <<Tok("str", lit.s)>> \o PyTokens(s, lit.next, depth)
           ELSE <<BadTok>>
    ELSE <<BadTok>>

\* the tokens of the one logical line of an expression: the blank lines before and
\* after it dropped.  A "newline" token left in them is a second logical line.
RECURSIVE LogicalLine(_)
LogicalLine(toks) ==
    IF toks = <<>> THEN <<>>
    ELSE IF Head(toks).k = "newline" THEN LogicalLine(Tail(toks))
    ELSE IF toks[Len(toks)].k = "newline" THEN LogicalLine(SubSeq(toks, 1, Len(toks) - 1))
    ELSE toks

\* int(digits)
DigitValue(c) == (CHOOSE i \in DOMAIN DigitChars : DigitChars[i] = c) - 1
RECURSIVE IntValue(_)
IntValue(ds) == IF ds = <<>> THEN 0 ELSE 10 * IntValue(SubSeq(ds, 1, Len(ds) - 1)) + DigitValue(ds[Len(ds)])

\* a + b
PyAdd(a, b) ==
    IF a.t = "str" /\ b.t = "str" THEN PyStr(a.s \o b.s)
    ELSE IF a.t = "bytes" /\ b.t = "bytes" THEN PyBytes(a.s \o b.s)
    ELSE IF a.t \in {"int", "bool"} /\ b.t \in {"int", "bool"} THEN PyInt(a.n + b.n)
    ELSE PyRaise
\* +a
PyPos(a) == IF a.t \in {"int", "bool"} THEN PyInt(a.n) ELSE PyRaise

\* the reserved words of the language besides None, True and False: the parser takes
\* none of them for a name (SyntaxError), whatever the locals bind
Keywords == {
    <<"a","n","d">>, <<"a","s">>, <<"a","s","s","e","r","t">>,
    <<"a","s","y","n","c">>, <<"a","w","a","i","t">>, <<"b","r","e","a","k">>,
    <<"c","l","a","s","s">>, <<"c","o","n","t","i","n","u","e">>, <<"d","e","f">>,
    <<"d","e","l">>, <<"e","l","i","f">>, <<"e","l","s","e">>,
    <<"e","x","c","e","p","t">>, <<"f","i","n","a","l","l","y">>, <<"f","o","r">>,
    <<"f","r","o","m">>, <<"g","l","o","b","a","l">>, <<"i","f">>,
    <<"i","m","p","o","r","t">>, <<"i","n">>, <<"i","s">>,
    <<"l","a","m","b","d","a">>, <<"n","o","n","l","o","c","a","l">>,
    <<"n","o","t">>, <<"o","r">>, <<"p","a","s","s">>, <<"r","a","i","s","e">>,
    <<"r","e","t","u","r","n">>, <<"t","r","y">>, <<"w","h","i","l","e">>,
    <<"w","i","t","h">>, <<"y","i","e","l","d">>}

\* the keywords that are constants: None, True, False (else PyRaise)
PyKeyword(name) ==
    IF name = <<"N","o","n","e">> THEN PyNone
    ELSE IF name = <<"T","r","u","e">> THEN PyBool(TRUE)
    ELSE IF name = <<"F","a","l","s","e">> THEN PyBool(FALSE)
    ELSE PyRaise

\* the names the compiler takes for constants, whatever the locals bind
PyConstant(name) ==
    IF name = <<"_","_","d","e","b","u","g","_","_">> THEN PyBool(TRUE)
    ELSE PyKeyword(name)

\* a name of the builtins module, else NameError
PyBuiltinName(name) ==
    IF name = <<"_","_","n","a","m","e","_","_">> THEN PyStr(<<"b","u","i","l","t","i","n","s">>)
    ELSE IF name = <<"_","_","d","o","c","_","_">> THEN PyStr(BuiltinsDoc)
    ELSE IF name = <<"_","_","p","a","c","k","a","g","e","_","_">> THEN PyStr(<<>>)
    \* two names of one object: EnvironmentError and IOError are OSError, and
    \* __loader__ is the class BuiltinImporter
    ELSE IF name \in {<<"E","n","v","i","r","o","n","m","e","n","t","E","r","r","o","r">>,
                      <<"I","O","E","r","r","o","r">>}
    THEN PyBuiltin(<<"O","S","E","r","r","o","r">>)
    ELSE IF name = <<"_","_","l","o","a","d","e","r","_","_">>
    THEN PyBuiltin(<<"B","u","i","l","t","i","n","I","m","p","o","r","t","e","r">>)
    ELSE IF name \in Builtins THEN PyBuiltin(name)
    ELSE PyRaise

\* PyName without the locals: eval(expr, {}) instead of eval(expr, {}, raw_user_data)
PyName_without_locals(name, env) ==
    IF PyConstant(name) # PyRaise THEN PyConstant(name)
    ELSE IF name \in Keywords THEN PyRaise
    ELSE PyBuiltinName(name)

\* a name: the constants, then the locals (the user data), then the builtins, else
\* NameError; a reserved word is no name (SyntaxError before any lookup)
PyName(name, env) ==
    IF PyConstant(name) # PyRaise THEN PyConstant(name)
    ELSE IF name \in Keywords THEN PyRaise
    ELSE IF name \in DOMAIN env THEN PyStr(env[name])
    ELSE PyBuiltinName(name)

\* adjacent string literals starting at token i are one literal: [v, next, f], f
\* telling that one of them is formatted (the literal is a JoinedStr, no constant)
RECURSIVE PyStrings(_, _)
PyStrings(toks, i) ==
    LET first == IF toks[i].k = "bytes" THEN PyBytes(toks[i].s) ELSE PyStr(toks[i].s)
    IN IF i < Len(toks) /\ toks[i + 1].k \in {"str", "fstr", "bytes"}
       THEN LET rest == PyStrings(toks, i + 1)
            IN [v |-> IF rest.v.t = first.t THEN PyAdd(first, rest.v) ELSE PyRaise,
                next |-> rest.next,
                f |-> rest.f \/ toks[i].k = "fstr"]
       ELSE [v |-> first, next |-> i + 1, f |-> toks[i].k = "fstr"]

\* unary: "+" unary | name | number | strings, from token i: [v, next]
RECURSIVE PyUnary(_, _, _)
PyUnary(toks, i, env) ==
    IF i > Len(toks) THEN [v |-> PyRaise, next |-> i]
    ELSE IF toks[i].k = "plus"
    THEN LET r == PyUnary(toks, i + 1, env) IN [v |-> PyPos(r.v), next |-> r.next]
    ELSE IF toks[i].k = "name" THEN [v |-> PyName(toks[i].s, env), next |-> i + 1]
    ELSE IF toks[i].k = "num" THEN [v |-> PyInt(IntValue(toks[i].s)), next |-> i + 1]
    ELSE IF toks[i].k \in {"str", "fstr", "bytes"}
    THEN LET lit(r) == [v |-> r.v, next |-> r.next] IN lit(PyStrings(toks, i))
    ELSE [v |-> PyRaise, next |-> i]

\* sum: unary ("+" unary)*, acc being the value of the operands before token i
RECURSIVE PySum(_, _, _, _)
PySum(toks, i, env, acc) ==
    IF acc.t = "raise" THEN PyRaise
    ELSE IF i > Len(toks) THEN acc
    ELSE IF toks[i].k = "plus"
    THEN LET r == PyUnary(toks, i + 1, env) IN PySum(toks, r.next, env, PyAdd(acc, r.v))
    ELSE PyRaise

PyEval(expr, env) ==
    LET line(toks) ==
            LET sum(first) == PySum(toks, first.next, env, first.v)
            IN IF \E i \in DOMAIN toks : toks[i].k \in {"newline", "{", "}", ":", ","}
               THEN PyRaise
               ELSE sum(PyUnary(toks, 1, env))
        source(all) == IF \E i \in DOMAIN all : all[i].k = "bad" THEN PyRaise
                       ELSE line(LogicalLine(all))
    IN source(PyTokens(expr, 1, 0))

(***************************************************************************)
(* Data reconstructor                                                      *)
(***************************************************************************)
\* one entry of the mapping: eval, and on an Exception the mapping value as a key
ResolveEntry(user_key_expr, raw) ==
    LET value == IF user_key_expr.t \in {"str", "bytes"}
                 THEN PyEval(user_key_expr.s, raw)
                 ELSE PyRaise
    IN IF value.t # "raise" THEN value
       ELSE IF user_key_expr.t = "str" /\ user_key_expr.s \in DOMAIN raw
            THEN PyStr(raw[user_key_expr.s])
            ELSE PyNone

\* reconstruct_user_data without its two guards: every entry is written
reconstruct_user_data_unguarded(fm, raw) == [f \in DOMAIN fm |-> ResolveEntry(fm[f], raw)]

reconstruct_user_data(fm, raw) ==
    LET kept == {f \in DOMAIN fm : fm[f].t # "none" /\ Truthy(ResolveEntry(fm[f], raw))}
    IN [f \in kept |-> ResolveEntry(fm[f], raw)]

(***************************************************************************)
(* User-data parser                                                        *)
(***************************************************************************)
\* [A-Za-z\s\/\(\)\[\]\-\.]
LabelClass == Letters \cup Whitespace \cup {"/", "(", ")", "[", "]", "-", "."}
\* [:：]
Colons == {":", FullWidthColon}
\* [\.\-]
Leaders == {".", "-"}

NoMatch == [ok |-> FALSE, label |-> <<>>, value |-> <<>>]
Matched(g1, g2) == [ok |-> TRUE, label |-> Strip(g1), value |-> Strip(g2)]

\* the index of the first character of cs at or after index i (0: none)
RECURSIVE FindIn(_, _, _)
FindIn(s, i, cs) == IF i > Len(s) THEN 0 ELSE IF s[i] \in cs THEN i ELSE FindIn(s, i + 1, cs)

\* \s*(.+)$ from index i: the start of group (.+), the greedy \s* giving back
\* its last character when it reaches the end of the line (0: no match)
ValueStart(line, i) ==
    IF i > Len(line) THEN 0
    ELSE LET m == RunEnd(line, i, Whitespace) IN IF m < Len(line) THEN m + 1 ELSE Len(line)

\* re.match(r"^([A-Za-z\s\/\(\)\[\]\-\.]+?)[:：]\s*(.+)$", line)
match_colon(line) ==
    LET c == FindIn(line, 1, Colons)
        v == ValueStart(line, c + 1)
    IN IF c >= 2 /\ (\A i \in 1..(c - 1) : line[i] \in LabelClass) /\ v > 0
       THEN Matched(SubSeq(line, 1, c - 1), SubSeq(line, v, Len(line)))
       ELSE NoMatch

\* \s*[\.\-]{2,}\s*(.+)$ after a label that ends at index i: the start of group
\* (.+), the greedy leader run giving back its last character when it reaches
\* the end of the line (0: no match)
DotsValueStart(line, i) ==
    LET j == RunEnd(line, i + 1, Whitespace)
        kmax == RunEnd(line, j + 1, Leaders)
        k == IF kmax < Len(line) THEN kmax ELSE Len(line) - 1
    IN IF k >= j + 2 THEN ValueStart(line, k + 1) ELSE 0

\* re.match(r"^([A-Za-z\s\/\(\)\[\]\-\.]+?)\s*[\.\-]{2,}\s*(.+)$", line):
\* the lazy label is the shortest prefix after which the rest matches
match_dots(line) ==
    LET p == RunEnd(line, 1, LabelClass)
        ends == {i \in 1..p : DotsValueStart(line, i) > 0}
    IN IF ends = {} THEN NoMatch
       ELSE LET i == CHOOSE x \in ends : \A y \in ends : x <= y
            IN Matched(SubSeq(line, 1, i), SubSeq(line, DotsValueStart(line, i), Len(line)))

\* the space-separated format: the label lengths min(5, len(words)) - 1 down to 1,
\* the first whose label and value are both longer than 1 character
match_space(line) ==
    LET words == Split(line)
        top == (IF Len(words) < 5 THEN Len(words) ELSE 5) - 1
        lab(i) == JoinSpace(SubSeq(words, 1, i))
        val(i) == JoinSpace(SubSeq(words, i + 1, Len(words)))
        good == {i \in 1..top : Len(lab(i)) > 1 /\ Len(val(i)) > 1}
    IN IF good = {} THEN NoMatch
       ELSE LET i == CHOOSE x \in good : \A y \in good : x >= y
            IN [ok |-> TRUE, label |-> lab(i), value |-> val(i)]

\* line.strip("• ").strip()
CleanLine(original_line) == Strip(StripChars(original_line, {Bullet, " "}))

\* ParseLine with the dotted-line format tried before the colon format
ParseLine_dots_first(original_line) ==
    LET line == CleanLine(original_line)
    IN IF line = <<>> THEN NoMatch
       ELSE IF match_dots(line).ok THEN match_dots(line)
       ELSE IF match_colon(line).ok THEN match_colon(line)
       ELSE match_space(line)

\* the entry one line contributes: colon, then dotted line, then space-separated
ParseLine(original_line) ==
    LET line == CleanLine(original_line)
    IN IF line = <<>> THEN NoMatch
       ELSE IF match_colon(line).ok THEN match_colon(line)
       ELSE IF match_dots(line).ok THEN match_dots(line)
       ELSE match_space(line)

\* the lines parsed with the first entry of a label kept
RECURSIVE ParseLines_first_wins(_, _)
ParseLines_first_wins(lines, data) ==
    IF lines = <<>> THEN data
    ELSE LET m == ParseLine(Head(lines))
         IN ParseLines_first_wins(Tail(lines),
                                  IF m.ok THEN data @@ (m.label :> m.value) ELSE data)

RECURSIVE ParseLines(_, _)
ParseLines(lines, data) ==
    IF lines = <<>> THEN data
    ELSE LET m == ParseLine(Head(lines))
         IN ParseLines(Tail(lines), IF m.ok THEN (m.label :> m.value) @@ data ELSE data)

extract_all_fields_from_text(text) == ParseLines(SplitLines(text), EmptyData)

(***************************************************************************)
(* Flat-label enumeration                                                  *)
(***************************************************************************)
\* [A-Za-z\s\/\(\)]
FormLabelClass == Letters \cup Whitespace \cup {"/", "(", ")"}

\* (?:\d+\.\s*)?([A-Za-z\s\/\(\)]+): tried at index p: [ok, group, next]
LabelMatchAt(line, p) ==
    LET d == RunEnd(line, p, Digits)
        ordinal == d >= p /\ d < Len(line) /\ line[d + 1] = "."
        \* with the ordinal: \s* is greedy and gives whitespace back to the group only
        \* when the group would otherwise be empty
        w == RunEnd(line, d + 2, Whitespace)
        eo == RunEnd(line, d + 2, FormLabelClass)
        go == IF w + 1 <= eo THEN w + 1 ELSE w
        withOrd == ordinal /\ eo >= d + 2 /\ eo < Len(line) /\ line[eo + 1] = ":"
        e == RunEnd(line, p, FormLabelClass)
        without == e >= p /\ e < Len(line) /\ line[e + 1] = ":"
    IN IF withOrd THEN [ok |-> TRUE, group |-> SubSeq(line, go, eo), next |-> eo + 2]
       ELSE IF without THEN [ok |-> TRUE, group |-> SubSeq(line, p, e), next |-> e + 2]
       ELSE [ok |-> FALSE, group |-> <<>>, next |-> p + 1]

\* re.findall(r"(?:\d+\.\s*)?([A-Za-z\s\/\(\)]+):", line) from index p on
RECURSIVE FindAllLabels(_, _)
FindAllLabels(line, p) ==
    IF p > Len(line) THEN <<>>
    ELSE LET m == LabelMatchAt(line, p)
         IN (IF m.ok THEN <<m.group>> ELSE <<>>) \o FindAllLabels(line, m.next)

\* the labels of one line with the short ones kept: every trimmed match
LineLabels_unfiltered(line) ==
    LET matches == FindAllLabels(line, 1)
    IN {Strip(matches[i]) : i \in DOMAIN matches}

\* the labels of one line: the trimmed matches longer than 1 character
LineLabels(line) ==
    LET matches == FindAllLabels(line, 1)
    IN {Strip(matches[i]) : i \in {j \in DOMAIN matches : Len(Strip(matches[j])) > 1}}

\* the set of labels of a form, a sequence of page texts
extract_labels_from_text(pages) ==
    UNION {UNION {LineLabels(SplitLines(pages[p])[l]) : l \in DOMAIN SplitLines(pages[p])}
           : p \in DOMAIN pages}

(***************************************************************************)
(* Field mapper: the parsing of the model's response                       *)
(*                                                                         *)
(* ast.literal_eval over the tokens of PyTokens: constants, unary "+" on a *)
(* number, set and dict displays, and a top-level tuple.  Every Exception  *)
(* (SyntaxError, ValueError, TypeError) is the one outcome PyRaise.  A     *)
(* result is [v, d, next]: the object, the entries when it is a dict, and  *)
(* the index of the token after it.                                        *)
(***************************************************************************)
Lit(v, next) == [v |-> v, d |-> EmptyDict, next |-> next]
LitRaise == Lit(PyRaise, 0)
TokIs(toks, i, k) == i <= Len(toks) /\ toks[i].k = k
Hashable(v) == v.t \notin {"dict", "set", "raise"}

\* a == b for two constants: a bool is the int 1 or 0
PyEq(a, b) == a = b \/ (a.t \in {"int", "bool"} /\ b.t \in {"int", "bool"} /\ a.n = b.n)

\* d[k] = v: an entry with an equal key keeps its key and takes the value
DictPut(d, k, v) ==
    IF \E j \in DOMAIN d : PyEq(j, k)
    THEN [j \in DOMAIN d |-> IF PyEq(j, k) THEN v ELSE d[j]]
    ELSE (k :> v) @@ d

RECURSIVE LitExpr(_, _), LitDictRest(_, _, _), LitSetRest(_, _)

\* an expression from token i
LitExpr(toks, i) ==
    LET u == IF i > Len(toks) THEN LitRaise
             ELSE IF toks[i].k = "plus"
             THEN (IF TokIs(toks, i + 1, "num")
                   THEN Lit(PyInt(IntValue(toks[i + 1].s)), i + 2) ELSE LitRaise)
             ELSE IF toks[i].k = "name"
             THEN (IF PyKeyword(toks[i].s) # PyRaise
                   THEN Lit(PyKeyword(toks[i].s), i + 1) ELSE LitRaise)
             ELSE IF toks[i].k = "num" THEN Lit(PyInt(IntValue(toks[i].s)), i + 1)
             ELSE IF toks[i].k \in {"str", "fstr", "bytes"}
             THEN (LET constant(lit) == IF lit.f THEN LitRaise ELSE Lit(lit.v, lit.next)
                   IN constant(PyStrings(toks, i)))
             ELSE IF toks[i].k = "{"
             THEN (IF TokIs(toks, i + 1, "}")
                   THEN [v |-> PyContainer("dict"), d |-> EmptyDict, next |-> i + 2]
                   ELSE LET first == LitExpr(toks, i + 1)
                        IN IF ~Hashable(first.v) THEN LitRaise
                           ELSE IF TokIs(toks, first.next, ":")
                           THEN LET val == LitExpr(toks, first.next + 1)
                                IN IF val.v.t = "raise" THEN LitRaise
                                   ELSE LitDictRest(toks, val.next,
                                                    DictPut(EmptyDict, first.v, val.v))
                           ELSE LitSetRest(toks, first.next))
             ELSE LitRaise
    \* a binary "+" is a ValueError: no operand is a complex number
    IN IF u.v.t = "raise" \/ TokIs(toks, u.next, "plus") THEN LitRaise ELSE u

\* a dict display after one of its values, d being the entries so far
LitDictRest(toks, i, d) ==
    IF TokIs(toks, i, "}") THEN [v |-> PyContainer("dict"), d |-> d, next |-> i + 1]
    ELSE IF TokIs(toks, i, ",") /\ TokIs(toks, i + 1, "}")
    THEN [v |-> PyContainer("dict"), d |-> d, next |-> i + 2]
    ELSE IF TokIs(toks, i, ",")
    THEN LET key == LitExpr(toks, i + 1)
             val == LitExpr(toks, key.next + 1)
         IN IF Hashable(key.v) /\ TokIs(toks, key.next, ":") /\ val.v.t # "raise"
            THEN LitDictRest(toks, val.next, DictPut(d, key.v, val.v))
            ELSE LitRaise
    ELSE LitRaise

\* a set display after one of its elements
LitSetRest(toks, i) ==
    IF TokIs(toks, i, "}") THEN Lit(PyContainer("set"), i + 1)
    ELSE IF TokIs(toks, i, ",") /\ TokIs(toks, i + 1, "}") THEN Lit(PyContainer("set"), i + 2)
    ELSE IF TokIs(toks, i, ",")
    THEN LET el == LitExpr(toks, i + 1)
         IN IF Hashable(el.v) THEN LitSetRest(toks, el.next) ELSE LitRaise
    ELSE LitRaise

\* the expressions of a top-level tuple after one of them
RECURSIVE LitTupleRest(_, _)
LitTupleRest(toks, i) ==
    IF i > Len(toks) THEN Lit(PyContainer("tuple"), i)
    ELSE IF TokIs(toks, i, ",") /\ i = Len(toks) THEN Lit(PyContainer("tuple"), i + 1)
    ELSE IF TokIs(toks, i, ",")
    THEN LET el == LitExpr(toks, i + 1)
         IN IF el.v.t = "raise" THEN LitRaise ELSE LitTupleRest(toks, el.next)
    ELSE LitRaise

\* ast.literal_eval(dict_str)
literal_eval(dict_str) ==
    LET line(toks) ==
            LET rest(first) == IF first.v.t = "raise" THEN LitRaise
                               ELSE IF first.next > Len(toks) THEN first
                               ELSE LitTupleRest(toks, first.next)
            IN IF \E i \in DOMAIN toks : toks[i].k = "newline" THEN LitRaise
               ELSE rest(LitExpr(toks, 1))
        source(all) == IF \E i \in DOMAIN all : all[i].k = "bad" THEN LitRaise
                       ELSE line(LogicalLine(all))
    IN source(PyTokens(dict_str, 1, 0))

\* the last index of character q (0: none)
RECURSIVE FindLast(_, _, _)
FindLast(s, i, q) == IF i < 1 THEN 0 ELSE IF s[i] = q THEN i ELSE FindLast(s, i - 1, q)

\* re.search(r"\{.*\}", content, re.DOTALL): from the first "{" to the last "}"
BraceMatch(text) ==
    LET a == Find(text, 1, "{")
        b == FindLast(text, Len(text), "}")
    IN IF a > 0 /\ b > a THEN [ok |-> TRUE, s |-> SubSeq(text, a, b)]
       ELSE [ok |-> FALSE, s |-> <<>>]

\* what the mapper returns: a dict and its entries, or the set or tuple literal_eval built
Mapping(kind, d) == [kind |-> kind, d |-> d]

\* the part of get_field_mapping_from_llm after the model's completion
ParseResponse(response) ==
    LET returned(field_mapping_) ==
            IF field_mapping_.v.t # "raise"
            THEN Mapping(field_mapping_.v.t, field_mapping_.d)
            ELSE Mapping("dict", EmptyDict)
        search(m) == IF m.ok THEN returned(literal_eval(m.s)) ELSE Mapping("dict", EmptyDict)
    IN search(BraceMatch(Strip(response)))

(***************************************************************************)
(* Flat-form filler.  A page is its text: the words of a line are its      *)
(* maximal non-blank runs, a line without words does not exist, and a      *)
(* word's position (x1, top) is its (line, word) index on the page.        *)
(***************************************************************************)
HasWords(ws) == ws # <<>>
\* the lines of a page, each the sequence of its words
PageLines(page) ==
    LET ls == SplitLines(page)
    IN SelectSeq([i \in DOMAIN ls |-> Split(ls[i])], HasWords)

\* the lines of a page whose text contains the label, case-insensitively
Qualifying(label, lines) ==
    {l \in DOMAIN lines : Contains(Lower(JoinSpace(lines[l])), Lower(label))}

\* the coordinate taken from the last qualifying line of the page
LabelCoord_last_line(label, lines, i) ==
    LET l == CHOOSE x \in Qualifying(label, lines) : \A y \in Qualifying(label, lines) : x >= y
        first_label_word == Lower(Split(label)[1])
        hits == {w \in DOMAIN lines[l] : Lower(lines[l][w]) = first_label_word}
    IN [page |-> i, line |-> l,
        word |-> IF hits = {} THEN 1 ELSE CHOOSE x \in hits : \A y \in hits : x <= y]

\* where the label's value goes on the page: after the first word of the first
\* qualifying line that equals the label's first token, else after the line's first word
LabelCoord(label, lines, i) ==
    LET l == CHOOSE x \in Qualifying(label, lines) : \A y \in Qualifying(label, lines) : x <= y
        first_label_word == Lower(Split(label)[1])
        hits == {w \in DOMAIN lines[l] : Lower(lines[l][w]) = first_label_word}
    IN [page |-> i, line |-> l,
        word |-> IF hits = {} THEN 1 ELSE CHOOSE x \in hits : \A y \in hits : x <= y]

\* label_key.lower() or label_key.split()[0] raises on this page
CoordRaises(label_key, lines) ==
    /\ lines # <<>>
    /\ \/ label_key.t # "str"
       \/ Qualifying(label_key.s, lines) # {} /\ Split(label_key.s) = <<>>

\* the pages, in order, on which the label has a qualifying line
PagesWith(label, pages) ==
    {i \in DOMAIN pages : Qualifying(label, PageLines(pages[i])) # {}}

\* coords_map after the scan of every page: a later page overwrites an earlier one
BuildCoords(pages, user_data) ==
    LET found == {k \in DOMAIN user_data : PagesWith(k.s, pages) # {}}
        last(k) == CHOOSE x \in PagesWith(k.s, pages) : \A y \in PagesWith(k.s, pages) : x >= y
    IN [k \in found |-> LabelCoord(k.s, PageLines(pages[last(k)]), last(k) - 1)]

(***************************************************************************)
(* str(value), src/app11.py line 278, for the values a mapping expression  *)
(* evaluates to: a str, an int, a bool, bytes and the objects of the       *)
(* builtins module                                                         *)
(***************************************************************************)
\* str(n) of an int n >= 0
RECURSIVE DecimalDigits(_)
DecimalDigits(n) ==
    IF n < 10 THEN <<DigitChars[n + 1]>>
    ELSE DecimalDigits(n \div 10) \o <<DigitChars[(n % 10) + 1]>>

\* the body of repr(bytes) between the quotes: tab, line break and the quote escaped
RECURSIVE BytesBody(_, _)
BytesBody(s, quote) ==
    IF s = <<>> THEN <<>>
    ELSE (IF Head(s) = "\t" THEN <<"\\", "t">>
          ELSE IF Head(s) = "\n" THEN <<"\\", "n">>
          ELSE IF Head(s) = quote THEN <<"\\", quote>>
          ELSE <<Head(s)>>) \o BytesBody(Tail(s), quote)
\* repr(bytes): in double quotes when the bytes hold ' and no ", else in single quotes
BytesRepr(s) ==
    LET quote == IF "'" \in Range(s) /\ "\"" \notin Range(s) THEN "\"" ELSE "'"
    IN <<"b", quote>> \o BytesBody(s, quote) \o <<quote>>

\* the names of the builtins module bound to a built-in function
BuiltinFunctions == {
    <<"_","_","b","u","i","l","d","_","c","l","a","s","s","_","_">>,
    <<"_","_","i","m","p","o","r","t","_","_">>, <<"a","b","s">>,
    <<"a","i","t","e","r">>, <<"a","l","l">>, <<"a","n","e","x","t">>,
    <<"a","n","y">>, <<"a","s","c","i","i">>, <<"b","i","n">>,
    <<"b","r","e","a","k","p","o","i","n","t">>, <<"c","a","l","l","a","b","l","e">>,
    <<"c","h","r">>, <<"c","o","m","p","i","l","e">>, <<"d","e","l","a","t","t","r">>,
    <<"d","i","r">>, <<"d","i","v","m","o","d">>, <<"e","v","a","l">>,
    <<"e","x","e","c">>, <<"f","o","r","m","a","t">>, <<"g","e","t","a","t","t","r">>,
    <<"g","l","o","b","a","l","s">>, <<"h","a","s","a","t","t","r">>,
    <<"h","a","s","h">>, <<"h","e","x">>, <<"i","d">>, <<"i","n","p","u","t">>,
    <<"i","s","i","n","s","t","a","n","c","e">>,
    <<"i","s","s","u","b","c","l","a","s","s">>, <<"i","t","e","r">>, <<"l","e","n">>,
    <<"l","o","c","a","l","s">>, <<"m","a","x">>, <<"m","i","n">>,
    <<"n","e","x","t">>, <<"o","c","t">>, <<"o","p","e","n">>, <<"o","r","d">>,
    <<"p","o","w">>, <<"p","r","i","n","t">>, <<"r","e","p","r">>,
    <<"r","o","u","n","d">>, <<"s","e","t","a","t","t","r">>,
    <<"s","o","r","t","e","d">>, <<"s","u","m">>, <<"v","a","r","s">>}

\* str() of the objects the site module adds to the builtins, of the module's
\* __spec__, and of the dict __builtins__ that eval() puts into the globals
CopyrightText ==
    <<"C","o","p","y","r","i","g","h","t"," ","(","c",")"," ","2","0">>
    \o <<"0","1","-","2","0","2","3"," ","P","y","t","h","o","n"," ","S">>
    \o <<"o","f","t","w","a","r","e"," ","F","o","u","n","d","a","t","i">>
    \o <<"o","n",".","\n","A","l","l"," ","R","i","g","h","t","s"," ","R">>
    \o <<"e","s","e","r","v","e","d",".","\n","\n","C","o","p","y","r","i">>
    \o <<"g","h","t"," ","(","c",")"," ","2","0","0","0"," ","B","e","O">>
    \o <<"p","e","n",".","c","o","m",".","\n","A","l","l"," ","R","i","g">>
    \o <<"h","t","s"," ","R","e","s","e","r","v","e","d",".","\n","\n","C">>
    \o <<"o","p","y","r","i","g","h","t"," ","(","c",")"," ","1","9","9">>
    \o <<"5","-","2","0","0","1"," ","C","o","r","p","o","r","a","t","i">>
    \o <<"o","n"," ","f","o","r"," ","N","a","t","i","o","n","a","l"," ">>
    \o <<"R","e","s","e","a","r","c","h"," ","I","n","i","t","i","a","t">>
    \o <<"i","v","e","s",".","\n","A","l","l"," ","R","i","g","h","t","s">>
    \o <<" ","R","e","s","e","r","v","e","d",".","\n","\n","C","o","p","y">>
    \o <<"r","i","g","h","t"," ","(","c",")"," ","1","9","9","1","-","1">>
    \o <<"9","9","5"," ","S","t","i","c","h","t","i","n","g"," ","M","a">>
    \o <<"t","h","e","m","a","t","i","s","c","h"," ","C","e","n","t","r">>
    \o <<"u","m",","," ","A","m","s","t","e","r","d","a","m",".","\n","A">>
    \o <<"l","l"," ","R","i","g","h","t","s"," ","R","e","s","e","r","v">>
    \o <<"e","d",".">>
CreditsText ==
    <<" "," "," "," ","T","h","a","n","k","s"," ","t","o"," ","C","W">>
    \o <<"I",","," ","C","N","R","I",","," ","B","e","O","p","e","n",".">>
    \o <<"c","o","m",","," ","Z","o","p","e"," ","C","o","r","p","o","r">>
    \o <<"a","t","i","o","n"," ","a","n","d"," ","a"," ","c","a","s","t">>
    \o <<" ","o","f"," ","t","h","o","u","s","a","n","d","s","\n"," "," ">>
    \o <<" "," ","f","o","r"," ","s","u","p","p","o","r","t","i","n","g">>
    \o <<" ","P","y","t","h","o","n"," ","d","e","v","e","l","o","p","m">>
    \o <<"e","n","t","."," "," ","S","e","e"," ","w","w","w",".","p","y">>
    \o <<"t","h","o","n",".","o","r","g"," ","f","o","r"," ","m","o","r">>
    \o <<"e"," ","i","n","f","o","r","m","a","t","i","o","n",".">>
LicenseText ==
    <<"T","y","p","e"," ","l","i","c","e","n","s","e","(",")"," ","t">>
    \o <<"o"," ","s","e","e"," ","t","h","e"," ","f","u","l","l"," ","l">>
    \o <<"i","c","e","n","s","e"," ","t","e","x","t">>
HelpText ==
    <<"T","y","p","e"," ","h","e","l","p","(",")"," ","f","o","r"," ">>
    \o <<"i","n","t","e","r","a","c","t","i","v","e"," ","h","e","l","p">>
    \o <<","," ","o","r"," ","h","e","l","p","(","o","b","j","e","c","t">>
    \o <<")"," ","f","o","r"," ","h","e","l","p"," ","a","b","o","u","t">>
    \o <<" ","o","b","j","e","c","t",".">>
QuitterText ==
    <<" ","o","r"," ","C","t","r","l","-","D"," ","(","i",".","e",".">>
    \o <<" ","E","O","F",")"," ","t","o"," ","e","x","i","t">>
SpecText ==
    <<"M","o","d","u","l","e","S","p","e","c","(","n","a","m","e","=">>
    \o <<"'","b","u","i","l","t","i","n","s","'",","," ","l","o","a","d">>
    \o <<"e","r","=","<","c","l","a","s","s"," ","'","_","f","r","o","z">>
    \o <<"e","n","_","i","m","p","o","r","t","l","i","b",".","B","u","i">>
    \o <<"l","t","i","n","I","m","p","o","r","t","e","r","'",">",","," ">>
    \o <<"o","r","i","g","i","n","=","'","b","u","i","l","t","-","i","n">>
    \o <<"'",")">>
BuiltinsDictText ==
    LET part1 ==
            <<"{","'","_","_","n","a","m","e","_","_","'",":"," ","'","b","u","i","l","t","i">>
            \o <<"n","s","'",","," ","'","_","_","d","o","c","_","_","'",":"," ","\"","B","u","i">>
            \o <<"l","t","-","i","n"," ","f","u","n","c","t","i","o","n","s",","," ","t","y","p">>
            \o <<"e","s",","," ","e","x","c","e","p","t","i","o","n","s",","," ","a","n","d"," ">>
            \o <<"o","t","h","e","r"," ","o","b","j","e","c","t","s",".","\\","n","\\","n","T","h">>
            \o <<"i","s"," ","m","o","d","u","l","e"," ","p","r","o","v","i","d","e","s"," ","d">>
            \o <<"i","r","e","c","t"," ","a","c","c","e","s","s"," ","t","o"," ","a","l","l"," ">>
            \o <<"'","b","u","i","l","t","-","i","n","'","\\","n","i","d","e","n","t","i","f","i">>
            \o <<"e","r","s"," ","o","f"," ","P","y","t","h","o","n",";"," ","f","o","r"," ","e">>
            \o <<"x","a","m","p","l","e",","," ","b","u","i","l","t","i","n","s",".","l","e","n">>
            \o <<" ","i","s","\\","n","t","h","e"," ","f","u","l","l"," ","n","a","m","e"," ","f">>
            \o <<"o","r"," ","t","h","e"," ","b","u","i","l","t","-","i","n"," ","f","u","n","c">>
            \o <<"t","i","o","n"," ","l","e","n","(",")",".","\\","n","\\","n","T","h","i","s"," ">>
            \o <<"m","o","d","u","l","e"," ","i","s"," ","n","o","t"," ","n","o","r","m","a","l">>
            \o <<"l","y"," ","a","c","c","e","s","s","e","d"," ","e","x","p","l","i","c","i","t">>
            \o <<"l","y"," ","b","y"," ","m","o","s","t","\\","n","a","p","p","l","i","c","a","t">>
            \o <<"i","o","n","s",","," ","b","u","t"," ","c","a","n"," ","b","e"," ","u","s","e">>
            \o <<"f","u","l"," ","i","n"," ","m","o","d","u","l","e","s"," ","t","h","a","t"," ">>
            \o <<"p","r","o","v","i","d","e","\\","n","o","b","j","e","c","t","s"," ","w","i","t">>
            \o <<"h"," ","t","h","e"," ","s","a","m","e"," ","n","a","m","e"," ","a","s"," ","a">>
        part2 ==
            <<" ","b","u","i","l","t","-","i","n"," ","v","a","l","u","e",","," ","b","u","t">>
            \o <<" ","i","n","\\","n","w","h","i","c","h"," ","t","h","e"," ","b","u","i","l","t">>
            \o <<"-","i","n"," ","o","f"," ","t","h","a","t"," ","n","a","m","e"," ","i","s"," ">>
            \o <<"a","l","s","o"," ","n","e","e","d","e","d",".","\"",","," ","'","_","_","p","a">>
            \o <<"c","k","a","g","e","_","_","'",":"," ","'","'",","," ","'","_","_","l","o","a">>
            \o <<"d","e","r","_","_","'",":"," ","<","c","l","a","s","s"," ","'","_","f","r","o">>
            \o <<"z","e","n","_","i","m","p","o","r","t","l","i","b",".","B","u","i","l","t","i">>
            \o <<"n","I","m","p","o","r","t","e","r","'",">",","," ","'","_","_","s","p","e","c">>
            \o <<"_","_","'",":"," ","M","o","d","u","l","e","S","p","e","c","(","n","a","m","e">>
            \o <<"=","'","b","u","i","l","t","i","n","s","'",","," ","l","o","a","d","e","r","=">>
            \o <<"<","c","l","a","s","s"," ","'","_","f","r","o","z","e","n","_","i","m","p","o">>
            \o <<"r","t","l","i","b",".","B","u","i","l","t","i","n","I","m","p","o","r","t","e">>
            \o <<"r","'",">",","," ","o","r","i","g","i","n","=","'","b","u","i","l","t","-","i">>
            \o <<"n","'",")",","," ","'","_","_","b","u","i","l","d","_","c","l","a","s","s","_">>
            \o <<"_","'",":"," ","<","b","u","i","l","t","-","i","n"," ","f","u","n","c","t","i">>
            \o <<"o","n"," ","_","_","b","u","i","l","d","_","c","l","a","s","s","_","_",">",",">>
            \o <<" ","'","_","_","i","m","p","o","r","t","_","_","'",":"," ","<","b","u","i","l">>
            \o <<"t","-","i","n"," ","f","u","n","c","t","i","o","n"," ","_","_","i","m","p","o">>
            \o <<"r","t","_","_",">",","," ","'","a","b","s","'",":"," ","<","b","u","i","l","t">>
            \o <<"-","i","n"," ","f","u","n","c","t","i","o","n"," ","a","b","s",">",","," ","'">>
        part3 ==
            <<"a","l","l","'",":"," ","<","b","u","i","l","t","-","i","n"," ","f","u","n","c">>
            \o <<"t","i","o","n"," ","a","l","l",">",","," ","'","a","n","y","'",":"," ","<","b">>
            \o <<"u","i","l","t","-","i","n"," ","f","u","n","c","t","i","o","n"," ","a","n","y">>
            \o <<">",","," ","'","a","s","c","i","i","'",":"," ","<","b","u","i","l","t","-","i">>
            \o <<"n"," ","f","u","n","c","t","i","o","n"," ","a","s","c","i","i",">",","," ","'">>
            \o <<"b","i","n","'",":"," ","<","b","u","i","l","t","-","i","n"," ","f","u","n","c">>
            \o <<"t","i","o","n"," ","b","i","n",">",","," ","'","b","r","e","a","k","p","o","i">>
            \o <<"n","t","'",":"," ","<","b","u","i","l","t","-","i","n"," ","f","u","n","c","t">>
            \o <<"i","o","n"," ","b","r","e","a","k","p","o","i","n","t",">",","," ","'","c","a">>
            \o <<"l","l","a","b","l","e","'",":"," ","<","b","u","i","l","t","-","i","n"," ","f">>
            \o <<"u","n","c","t","i","o","n"," ","c","a","l","l","a","b","l","e",">",","," ","'">>
            \o <<"c","h","r","'",":"," ","<","b","u","i","l","t","-","i","n"," ","f","u","n","c">>
            \o <<"t","i","o","n"," ","c","h","r",">",","," ","'","c","o","m","p","i","l","e","'">>
            \o <<":"," ","<","b","u","i","l","t","-","i","n"," ","f","u","n","c","t","i","o","n">>
            \o <<" ","c","o","m","p","i","l","e",">",","," ","'","d","e","l","a","t","t","r","'">>
            \o <<":"," ","<","b","u","i","l","t","-","i","n"," ","f","u","n","c","t","i","o","n">>
            \o <<" ","d","e","l","a","t","t","r",">",","," ","'","d","i","r","'",":"," ","<","b">>
            \o <<"u","i","l","t","-","i","n"," ","f","u","n","c","t","i","o","n"," ","d","i","r">>
            \o <<">",","," ","'","d","i","v","m","o","d","'",":"," ","<","b","u","i","l","t","-">>
            \o <<"i","n"," ","f","u","n","c","t","i","o","n"," ","d","i","v","m","o","d",">",",">>
        part4 ==
            <<" ","'","e","v","a","l","'",":"," ","<","b","u","i","l","t","-","i","n"," ","f">>
            \o <<"u","n","c","t","i","o","n"," ","e","v","a","l",">",","," ","'","e","x","e","c">>
            \o <<"'",":"," ","<","b","u","i","l","t","-","i","n"," ","f","u","n","c","t","i","o">>
            \o <<"n"," ","e","x","e","c",">",","," ","'","f","o","r","m","a","t","'",":"," ","<">>
            \o <<"b","u","i","l","t","-","i","n"," ","f","u","n","c","t","i","o","n"," ","f","o">>
            \o <<"r","m","a","t",">",","," ","'","g","e","t","a","t","t","r","'",":"," ","<","b">>
            \o <<"u","i","l","t","-","i","n"," ","f","u","n","c","t","i","o","n"," ","g","e","t">>
            \o <<"a","t","t","r",">",","," ","'","g","l","o","b","a","l","s","'",":"," ","<","b">>
            \o <<"u","i","l","t","-","i","n"," ","f","u","n","c","t","i","o","n"," ","g","l","o">>
            \o <<"b","a","l","s",">",","," ","'","h","a","s","a","t","t","r","'",":"," ","<","b">>
            \o <<"u","i","l","t","-","i","n"," ","f","u","n","c","t","i","o","n"," ","h","a","s">>
            \o <<"a","t","t","r",">",","," ","'","h","a","s","h","'",":"," ","<","b","u","i","l">>
            \o <<"t","-","i","n"," ","f","u","n","c","t","i","o","n"," ","h","a","s","h",">",",">>
            \o <<" ","'","h","e","x","'",":"," ","<","b","u","i","l","t","-","i","n"," ","f","u">>
            \o <<"n","c","t","i","o","n"," ","h","e","x",">",","," ","'","i","d","'",":"," ","<">>
            \o <<"b","u","i","l","t","-","i","n"," ","f","u","n","c","t","i","o","n"," ","i","d">>
            \o <<">",","," ","'","i","n","p","u","t","'",":"," ","<","b","u","i","l","t","-","i">>
            \o <<"n"," ","f","u","n","c","t","i","o","n"," ","i","n","p","u","t",">",","," ","'">>
            \o <<"i","s","i","n","s","t","a","n","c","e","'",":"," ","<","b","u","i","l","t","-">>
            \o <<"i","n"," ","f","u","n","c","t","i","o","n"," ","i","s","i","n","s","t","a","n">>
        part5 ==
            <<"c","e",">",","," ","'","i","s","s","u","b","c","l","a","s","s","'",":"," ","<">>
            \o <<"b","u","i","l","t","-","i","n"," ","f","u","n","c","t","i","o","n"," ","i","s">>
            \o <<"s","u","b","c","l","a","s","s",">",","," ","'","i","t","e","r","'",":"," ","<">>
            \o <<"b","u","i","l","t","-","i","n"," ","f","u","n","c","t","i","o","n"," ","i","t">>
            \o <<"e","r",">",","," ","'","a","i","t","e","r","'",":"," ","<","b","u","i","l","t">>
            \o <<"-","i","n"," ","f","u","n","c","t","i","o","n"," ","a","i","t","e","r",">",",">>
            \o <<" ","'","l","e","n","'",":"," ","<","b","u","i","l","t","-","i","n"," ","f","u">>
            \o <<"n","c","t","i","o","n"," ","l","e","n",">",","," ","'","l","o","c","a","l","s">>
            \o <<"'",":"," ","<","b","u","i","l","t","-","i","n"," ","f","u","n","c","t","i","o">>
            \o <<"n"," ","l","o","c","a","l","s",">",","," ","'","m","a","x","'",":"," ","<","b">>
            \o <<"u","i","l","t","-","i","n"," ","f","u","n","c","t","i","o","n"," ","m","a","x">>
            \o <<">",","," ","'","m","i","n","'",":"," ","<","b","u","i","l","t","-","i","n"," ">>
            \o <<"f","u","n","c","t","i","o","n"," ","m","i","n",">",","," ","'","n","e","x","t">>
            \o <<"'",":"," ","<","b","u","i","l","t","-","i","n"," ","f","u","n","c","t","i","o">>
            \o <<"n"," ","n","e","x","t",">",","," ","'","a","n","e","x","t","'",":"," ","<","b">>
            \o <<"u","i","l","t","-","i","n"," ","f","u","n","c","t","i","o","n"," ","a","n","e">>
            \o <<"x","t",">",","," ","'","o","c","t","'",":"," ","<","b","u","i","l","t","-","i">>
            \o <<"n"," ","f","u","n","c","t","i","o","n"," ","o","c","t",">",","," ","'","o","r">>
            \o <<"d","'",":"," ","<","b","u","i","l","t","-","i","n"," ","f","u","n","c","t","i">>
            \o <<"o","n"," ","o","r","d",">",","," ","'","p","o","w","'",":"," ","<","b","u","i">>
        part6 ==
            <<"l","t","-","i","n"," ","f","u","n","c","t","i","o","n"," ","p","o","w",">",",">>
            \o <<" ","'","p","r","i","n","t","'",":"," ","<","b","u","i","l","t","-","i","n"," ">>
            \o <<"f","u","n","c","t","i","o","n"," ","p","r","i","n","t",">",","," ","'","r","e">>
            \o <<"p","r","'",":"," ","<","b","u","i","l","t","-","i","n"," ","f","u","n","c","t">>
            \o <<"i","o","n"," ","r","e","p","r",">",","," ","'","r","o","u","n","d","'",":"," ">>
            \o <<"<","b","u","i","l","t","-","i","n"," ","f","u","n","c","t","i","o","n"," ","r">>
            \o <<"o","u","n","d",">",","," ","'","s","e","t","a","t","t","r","'",":"," ","<","b">>
            \o <<"u","i","l","t","-","i","n"," ","f","u","n","c","t","i","o","n"," ","s","e","t">>
            \o <<"a","t","t","r",">",","," ","'","s","o","r","t","e","d","'",":"," ","<","b","u">>
            \o <<"i","l","t","-","i","n"," ","f","u","n","c","t","i","o","n"," ","s","o","r","t">>
            \o <<"e","d",">",","," ","'","s","u","m","'",":"," ","<","b","u","i","l","t","-","i">>
            \o <<"n"," ","f","u","n","c","t","i","o","n"," ","s","u","m",">",","," ","'","v","a">>
            \o <<"r","s","'",":"," ","<","b","u","i","l","t","-","i","n"," ","f","u","n","c","t">>
            \o <<"i","o","n"," ","v","a","r","s",">",","," ","'","N","o","n","e","'",":"," ","N">>
            \o <<"o","n","e",","," ","'","E","l","l","i","p","s","i","s","'",":"," ","E","l","l">>
            \o <<"i","p","s","i","s",","," ","'","N","o","t","I","m","p","l","e","m","e","n","t">>
            \o <<"e","d","'",":"," ","N","o","t","I","m","p","l","e","m","e","n","t","e","d",",">>
            \o <<" ","'","F","a","l","s","e","'",":"," ","F","a","l","s","e",","," ","'","T","r">>
            \o <<"u","e","'",":"," ","T","r","u","e",","," ","'","b","o","o","l","'",":"," ","<">>
            \o <<"c","l","a","s","s"," ","'","b","o","o","l","'",">",","," ","'","m","e","m","o">>
        part7 ==
            <<"r","y","v","i","e","w","'",":"," ","<","c","l","a","s","s"," ","'","m","e","m">>
            \o <<"o","r","y","v","i","e","w","'",">",","," ","'","b","y","t","e","a","r","r","a">>
            \o <<"y","'",":"," ","<","c","l","a","s","s"," ","'","b","y","t","e","a","r","r","a">>
            \o <<"y","'",">",","," ","'","b","y","t","e","s","'",":"," ","<","c","l","a","s","s">>
            \o <<" ","'","b","y","t","e","s","'",">",","," ","'","c","l","a","s","s","m","e","t">>
            \o <<"h","o","d","'",":"," ","<","c","l","a","s","s"," ","'","c","l","a","s","s","m">>
            \o <<"e","t","h","o","d","'",">",","," ","'","c","o","m","p","l","e","x","'",":"," ">>
            \o <<"<","c","l","a","s","s"," ","'","c","o","m","p","l","e","x","'",">",","," ","'">>
            \o <<"d","i","c","t","'",":"," ","<","c","l","a","s","s"," ","'","d","i","c","t","'">>
            \o <<">",","," ","'","e","n","u","m","e","r","a","t","e","'",":"," ","<","c","l","a">>
            \o <<"s","s"," ","'","e","n","u","m","e","r","a","t","e","'",">",","," ","'","f","i">>
            \o <<"l","t","e","r","'",":"," ","<","c","l","a","s","s"," ","'","f","i","l","t","e">>
            \o <<"r","'",">",","," ","'","f","l","o","a","t","'",":"," ","<","c","l","a","s","s">>
            \o <<" ","'","f","l","o","a","t","'",">",","," ","'","f","r","o","z","e","n","s","e">>
            \o <<"t","'",":"," ","<","c","l","a","s","s"," ","'","f","r","o","z","e","n","s","e">>
            \o <<"t","'",">",","," ","'","p","r","o","p","e","r","t","y","'",":"," ","<","c","l">>
            \o <<"a","s","s"," ","'","p","r","o","p","e","r","t","y","'",">",","," ","'","i","n">>
            \o <<"t","'",":"," ","<","c","l","a","s","s"," ","'","i","n","t","'",">",","," ","'">>
            \o <<"l","i","s","t","'",":"," ","<","c","l","a","s","s"," ","'","l","i","s","t","'">>
            \o <<">",","," ","'","m","a","p","'",":"," ","<","c","l","a","s","s"," ","'","m","a">>
        part8 ==
            <<"p","'",">",","," ","'","o","b","j","e","c","t","'",":"," ","<","c","l","a","s">>
            \o <<"s"," ","'","o","b","j","e","c","t","'",">",","," ","'","r","a","n","g","e","'">>
            \o <<":"," ","<","c","l","a","s","s"," ","'","r","a","n","g","e","'",">",","," ","'">>
            \o <<"r","e","v","e","r","s","e","d","'",":"," ","<","c","l","a","s","s"," ","'","r">>
            \o <<"e","v","e","r","s","e","d","'",">",","," ","'","s","e","t","'",":"," ","<","c">>
            \o <<"l","a","s","s"," ","'","s","e","t","'",">",","," ","'","s","l","i","c","e","'">>
            \o <<":"," ","<","c","l","a","s","s"," ","'","s","l","i","c","e","'",">",","," ","'">>
            \o <<"s","t","a","t","i","c","m","e","t","h","o","d","'",":"," ","<","c","l","a","s">>
            \o <<"s"," ","'","s","t","a","t","i","c","m","e","t","h","o","d","'",">",","," ","'">>
            \o <<"s","t","r","'",":"," ","<","c","l","a","s","s"," ","'","s","t","r","'",">",",">>
            \o <<" ","'","s","u","p","e","r","'",":"," ","<","c","l","a","s","s"," ","'","s","u">>
            \o <<"p","e","r","'",">",","," ","'","t","u","p","l","e","'",":"," ","<","c","l","a">>
            \o <<"s","s"," ","'","t","u","p","l","e","'",">",","," ","'","t","y","p","e","'",":">>
            \o <<" ","<","c","l","a","s","s"," ","'","t","y","p","e","'",">",","," ","'","z","i">>
            \o <<"p","'",":"," ","<","c","l","a","s","s"," ","'","z","i","p","'",">",","," ","'">>
            \o <<"_","_","d","e","b","u","g","_","_","'",":"," ","T","r","u","e",","," ","'","B">>
            \o <<"a","s","e","E","x","c","e","p","t","i","o","n","'",":"," ","<","c","l","a","s">>
            \o <<"s"," ","'","B","a","s","e","E","x","c","e","p","t","i","o","n","'",">",","," ">>
            \o <<"'","B","a","s","e","E","x","c","e","p","t","i","o","n","G","r","o","u","p","'">>
            \o <<":"," ","<","c","l","a","s","s"," ","'","B","a","s","e","E","x","c","e","p","t">>
        part9 ==
            <<"i","o","n","G","r","o","u","p","'",">",","," ","'","E","x","c","e","p","t","i">>
            \o <<"o","n","'",":"," ","<","c","l","a","s","s"," ","'","E","x","c","e","p","t","i">>
            \o <<"o","n","'",">",","," ","'","G","e","n","e","r","a","t","o","r","E","x","i","t">>
            \o <<"'",":"," ","<","c","l","a","s","s"," ","'","G","e","n","e","r","a","t","o","r">>
            \o <<"E","x","i","t","'",">",","," ","'","K","e","y","b","o","a","r","d","I","n","t">>
            \o <<"e","r","r","u","p","t","'",":"," ","<","c","l","a","s","s"," ","'","K","e","y">>
            \o <<"b","o","a","r","d","I","n","t","e","r","r","u","p","t","'",">",","," ","'","S">>
            \o <<"y","s","t","e","m","E","x","i","t","'",":"," ","<","c","l","a","s","s"," ","'">>
            \o <<"S","y","s","t","e","m","E","x","i","t","'",">",","," ","'","A","r","i","t","h">>
            \o <<"m","e","t","i","c","E","r","r","o","r","'",":"," ","<","c","l","a","s","s"," ">>
            \o <<"'","A","r","i","t","h","m","e","t","i","c","E","r","r","o","r","'",">",","," ">>
            \o <<"'","A","s","s","e","r","t","i","o","n","E","r","r","o","r","'",":"," ","<","c">>
            \o <<"l","a","s","s"," ","'","A","s","s","e","r","t","i","o","n","E","r","r","o","r">>
            \o <<"'",">",","," ","'","A","t","t","r","i","b","u","t","e","E","r","r","o","r","'">>
            \o <<":"," ","<","c","l","a","s","s"," ","'","A","t","t","r","i","b","u","t","e","E">>
            \o <<"r","r","o","r","'",">",","," ","'","B","u","f","f","e","r","E","r","r","o","r">>
            \o <<"'",":"," ","<","c","l","a","s","s"," ","'","B","u","f","f","e","r","E","r","r">>
            \o <<"o","r","'",">",","," ","'","E","O","F","E","r","r","o","r","'",":"," ","<","c">>
            \o <<"l","a","s","s"," ","'","E","O","F","E","r","r","o","r","'",">",","," ","'","I">>
            \o <<"m","p","o","r","t","E","r","r","o","r","'",":"," ","<","c","l","a","s","s"," ">>
        part10 ==
            <<"'","I","m","p","o","r","t","E","r","r","o","r","'",">",","," ","'","L","o","o">>
            \o <<"k","u","p","E","r","r","o","r","'",":"," ","<","c","l","a","s","s"," ","'","L">>
            \o <<"o","o","k","u","p","E","r","r","o","r","'",">",","," ","'","M","e","m","o","r">>
            \o <<"y","E","r","r","o","r","'",":"," ","<","c","l","a","s","s"," ","'","M","e","m">>
            \o <<"o","r","y","E","r","r","o","r","'",">",","," ","'","N","a","m","e","E","r","r">>
            \o <<"o","r","'",":"," ","<","c","l","a","s","s"," ","'","N","a","m","e","E","r","r">>
            \o <<"o","r","'",">",","," ","'","O","S","E","r","r","o","r","'",":"," ","<","c","l">>
            \o <<"a","s","s"," ","'","O","S","E","r","r","o","r","'",">",","," ","'","R","e","f">>
            \o <<"e","r","e","n","c","e","E","r","r","o","r","'",":"," ","<","c","l","a","s","s">>
            \o <<" ","'","R","e","f","e","r","e","n","c","e","E","r","r","o","r","'",">",","," ">>
            \o <<"'","R","u","n","t","i","m","e","E","r","r","o","r","'",":"," ","<","c","l","a">>
            \o <<"s","s"," ","'","R","u","n","t","i","m","e","E","r","r","o","r","'",">",","," ">>
            \o <<"'","S","t","o","p","A","s","y","n","c","I","t","e","r","a","t","i","o","n","'">>
            \o <<":"," ","<","c","l","a","s","s"," ","'","S","t","o","p","A","s","y","n","c","I">>
            \o <<"t","e","r","a","t","i","o","n","'",">",","," ","'","S","t","o","p","I","t","e">>
            \o <<"r","a","t","i","o","n","'",":"," ","<","c","l","a","s","s"," ","'","S","t","o">>
            \o <<"p","I","t","e","r","a","t","i","o","n","'",">",","," ","'","S","y","n","t","a">>
            \o <<"x","E","r","r","o","r","'",":"," ","<","c","l","a","s","s"," ","'","S","y","n">>
            \o <<"t","a","x","E","r","r","o","r","'",">",","," ","'","S","y","s","t","e","m","E">>
            \o <<"r","r","o","r","'",":"," ","<","c","l","a","s","s"," ","'","S","y","s","t","e">>
        part11 ==
            <<"m","E","r","r","o","r","'",">",","," ","'","T","y","p","e","E","r","r","o","r">>
            \o <<"'",":"," ","<","c","l","a","s","s"," ","'","T","y","p","e","E","r","r","o","r">>
            \o <<"'",">",","," ","'","V","a","l","u","e","E","r","r","o","r","'",":"," ","<","c">>
            \o <<"l","a","s","s"," ","'","V","a","l","u","e","E","r","r","o","r","'",">",","," ">>
            \o <<"'","W","a","r","n","i","n","g","'",":"," ","<","c","l","a","s","s"," ","'","W">>
            \o <<"a","r","n","i","n","g","'",">",","," ","'","F","l","o","a","t","i","n","g","P">>
            \o <<"o","i","n","t","E","r","r","o","r","'",":"," ","<","c","l","a","s","s"," ","'">>
            \o <<"F","l","o","a","t","i","n","g","P","o","i","n","t","E","r","r","o","r","'",">">>
            \o <<","," ","'","O","v","e","r","f","l","o","w","E","r","r","o","r","'",":"," ","<">>
            \o <<"c","l","a","s","s"," ","'","O","v","e","r","f","l","o","w","E","r","r","o","r">>
            \o <<"'",">",","," ","'","Z","e","r","o","D","i","v","i","s","i","o","n","E","r","r">>
            \o <<"o","r","'",":"," ","<","c","l","a","s","s"," ","'","Z","e","r","o","D","i","v">>
            \o <<"i","s","i","o","n","E","r","r","o","r","'",">",","," ","'","B","y","t","e","s">>
            \o <<"W","a","r","n","i","n","g","'",":"," ","<","c","l","a","s","s"," ","'","B","y">>
            \o <<"t","e","s","W","a","r","n","i","n","g","'",">",","," ","'","D","e","p","r","e">>
            \o <<"c","a","t","i","o","n","W","a","r","n","i","n","g","'",":"," ","<","c","l","a">>
            \o <<"s","s"," ","'","D","e","p","r","e","c","a","t","i","o","n","W","a","r","n","i">>
            \o <<"n","g","'",">",","," ","'","E","n","c","o","d","i","n","g","W","a","r","n","i">>
            \o <<"n","g","'",":"," ","<","c","l","a","s","s"," ","'","E","n","c","o","d","i","n">>
            \o <<"g","W","a","r","n","i","n","g","'",">",","," ","'","F","u","t","u","r","e","W">>
        part12 ==
            <<"a","r","n","i","n","g","'",":"," ","<","c","l","a","s","s"," ","'","F","u","t">>
            \o <<"u","r","e","W","a","r","n","i","n","g","'",">",","," ","'","I","m","p","o","r">>
            \o <<"t","W","a","r","n","i","n","g","'",":"," ","<","c","l","a","s","s"," ","'","I">>
            \o <<"m","p","o","r","t","W","a","r","n","i","n","g","'",">",","," ","'","P","e","n">>
            \o <<"d","i","n","g","D","e","p","r","e","c","a","t","i","o","n","W","a","r","n","i">>
            \o <<"n","g","'",":"," ","<","c","l","a","s","s"," ","'","P","e","n","d","i","n","g">>
            \o <<"D","e","p","r","e","c","a","t","i","o","n","W","a","r","n","i","n","g","'",">">>
            \o <<","," ","'","R","e","s","o","u","r","c","e","W","a","r","n","i","n","g","'",":">>
            \o <<" ","<","c","l","a","s","s"," ","'","R","e","s","o","u","r","c","e","W","a","r">>
            \o <<"n","i","n","g","'",">",","," ","'","R","u","n","t","i","m","e","W","a","r","n">>
            \o <<"i","n","g","'",":"," ","<","c","l","a","s","s"," ","'","R","u","n","t","i","m">>
            \o <<"e","W","a","r","n","i","n","g","'",">",","," ","'","S","y","n","t","a","x","W">>
            \o <<"a","r","n","i","n","g","'",":"," ","<","c","l","a","s","s"," ","'","S","y","n">>
            \o <<"t","a","x","W","a","r","n","i","n","g","'",">",","," ","'","U","n","i","c","o">>
            \o <<"d","e","W","a","r","n","i","n","g","'",":"," ","<","c","l","a","s","s"," ","'">>
            \o <<"U","n","i","c","o","d","e","W","a","r","n","i","n","g","'",">",","," ","'","U">>
            \o <<"s","e","r","W","a","r","n","i","n","g","'",":"," ","<","c","l","a","s","s"," ">>
            \o <<"'","U","s","e","r","W","a","r","n","i","n","g","'",">",","," ","'","B","l","o">>
            \o <<"c","k","i","n","g","I","O","E","r","r","o","r","'",":"," ","<","c","l","a","s">>
            \o <<"s"," ","'","B","l","o","c","k","i","n","g","I","O","E","r","r","o","r","'",">">>
        part13 ==
            <<","," ","'","C","h","i","l","d","P","r","o","c","e","s","s","E","r","r","o","r">>
            \o <<"'",":"," ","<","c","l","a","s","s"," ","'","C","h","i","l","d","P","r","o","c">>
            \o <<"e","s","s","E","r","r","o","r","'",">",","," ","'","C","o","n","n","e","c","t">>
            \o <<"i","o","n","E","r","r","o","r","'",":"," ","<","c","l","a","s","s"," ","'","C">>
            \o <<"o","n","n","e","c","t","i","o","n","E","r","r","o","r","'",">",","," ","'","F">>
            \o <<"i","l","e","E","x","i","s","t","s","E","r","r","o","r","'",":"," ","<","c","l">>
            \o <<"a","s","s"," ","'","F","i","l","e","E","x","i","s","t","s","E","r","r","o","r">>
            \o <<"'",">",","," ","'","F","i","l","e","N","o","t","F","o","u","n","d","E","r","r">>
            \o <<"o","r","'",":"," ","<","c","l","a","s","s"," ","'","F","i","l","e","N","o","t">>
            \o <<"F","o","u","n","d","E","r","r","o","r","'",">",","," ","'","I","n","t","e","r">>
            \o <<"r","u","p","t","e","d","E","r","r","o","r","'",":"," ","<","c","l","a","s","s">>
            \o <<" ","'","I","n","t","e","r","r","u","p","t","e","d","E","r","r","o","r","'",">">>
            \o <<","," ","'","I","s","A","D","i","r","e","c","t","o","r","y","E","r","r","o","r">>
            \o <<"'",":"," ","<","c","l","a","s","s"," ","'","I","s","A","D","i","r","e","c","t">>
            \o <<"o","r","y","E","r","r","o","r","'",">",","," ","'","N","o","t","A","D","i","r">>
            \o <<"e","c","t","o","r","y","E","r","r","o","r","'",":"," ","<","c","l","a","s","s">>
            \o <<" ","'","N","o","t","A","D","i","r","e","c","t","o","r","y","E","r","r","o","r">>
            \o <<"'",">",","," ","'","P","e","r","m","i","s","s","i","o","n","E","r","r","o","r">>
            \o <<"'",":"," ","<","c","l","a","s","s"," ","'","P","e","r","m","i","s","s","i","o">>
            \o <<"n","E","r","r","o","r","'",">",","," ","'","P","r","o","c","e","s","s","L","o">>
        part14 ==
            <<"o","k","u","p","E","r","r","o","r","'",":"," ","<","c","l","a","s","s"," ","'">>
            \o <<"P","r","o","c","e","s","s","L","o","o","k","u","p","E","r","r","o","r","'",">">>
            \o <<","," ","'","T","i","m","e","o","u","t","E","r","r","o","r","'",":"," ","<","c">>
            \o <<"l","a","s","s"," ","'","T","i","m","e","o","u","t","E","r","r","o","r","'",">">>
            \o <<","," ","'","I","n","d","e","n","t","a","t","i","o","n","E","r","r","o","r","'">>
            \o <<":"," ","<","c","l","a","s","s"," ","'","I","n","d","e","n","t","a","t","i","o">>
            \o <<"n","E","r","r","o","r","'",">",","," ","'","I","n","d","e","x","E","r","r","o">>
            \o <<"r","'",":"," ","<","c","l","a","s","s"," ","'","I","n","d","e","x","E","r","r">>
            \o <<"o","r","'",">",","," ","'","K","e","y","E","r","r","o","r","'",":"," ","<","c">>
            \o <<"l","a","s","s"," ","'","K","e","y","E","r","r","o","r","'",">",","," ","'","M">>
            \o <<"o","d","u","l","e","N","o","t","F","o","u","n","d","E","r","r","o","r","'",":">>
            \o <<" ","<","c","l","a","s","s"," ","'","M","o","d","u","l","e","N","o","t","F","o">>
            \o <<"u","n","d","E","r","r","o","r","'",">",","," ","'","N","o","t","I","m","p","l">>
            \o <<"e","m","e","n","t","e","d","E","r","r","o","r","'",":"," ","<","c","l","a","s">>
            \o <<"s"," ","'","N","o","t","I","m","p","l","e","m","e","n","t","e","d","E","r","r">>
            \o <<"o","r","'",">",","," ","'","R","e","c","u","r","s","i","o","n","E","r","r","o">>
            \o <<"r","'",":"," ","<","c","l","a","s","s"," ","'","R","e","c","u","r","s","i","o">>
            \o <<"n","E","r","r","o","r","'",">",","," ","'","U","n","b","o","u","n","d","L","o">>
            \o <<"c","a","l","E","r","r","o","r","'",":"," ","<","c","l","a","s","s"," ","'","U">>
            \o <<"n","b","o","u","n","d","L","o","c","a","l","E","r","r","o","r","'",">",","," ">>
        part15 ==
            <<"'","U","n","i","c","o","d","e","E","r","r","o","r","'",":"," ","<","c","l","a">>
            \o <<"s","s"," ","'","U","n","i","c","o","d","e","E","r","r","o","r","'",">",","," ">>
            \o <<"'","B","r","o","k","e","n","P","i","p","e","E","r","r","o","r","'",":"," ","<">>
            \o <<"c","l","a","s","s"," ","'","B","r","o","k","e","n","P","i","p","e","E","r","r">>
            \o <<"o","r","'",">",","," ","'","C","o","n","n","e","c","t","i","o","n","A","b","o">>
            \o <<"r","t","e","d","E","r","r","o","r","'",":"," ","<","c","l","a","s","s"," ","'">>
            \o <<"C","o","n","n","e","c","t","i","o","n","A","b","o","r","t","e","d","E","r","r">>
            \o <<"o","r","'",">",","," ","'","C","o","n","n","e","c","t","i","o","n","R","e","f">>
            \o <<"u","s","e","d","E","r","r","o","r","'",":"," ","<","c","l","a","s","s"," ","'">>
            \o <<"C","o","n","n","e","c","t","i","o","n","R","e","f","u","s","e","d","E","r","r">>
            \o <<"o","r","'",">",","," ","'","C","o","n","n","e","c","t","i","o","n","R","e","s">>
            \o <<"e","t","E","r","r","o","r","'",":"," ","<","c","l","a","s","s"," ","'","C","o">>
            \o <<"n","n","e","c","t","i","o","n","R","e","s","e","t","E","r","r","o","r","'",">">>
            \o <<","," ","'","T","a","b","E","r","r","o","r","'",":"," ","<","c","l","a","s","s">>
            \o <<" ","'","T","a","b","E","r","r","o","r","'",">",","," ","'","U","n","i","c","o">>
            \o <<"d","e","D","e","c","o","d","e","E","r","r","o","r","'",":"," ","<","c","l","a">>
            \o <<"s","s"," ","'","U","n","i","c","o","d","e","D","e","c","o","d","e","E","r","r">>
            \o <<"o","r","'",">",","," ","'","U","n","i","c","o","d","e","E","n","c","o","d","e">>
            \o <<"E","r","r","o","r","'",":"," ","<","c","l","a","s","s"," ","'","U","n","i","c">>
            \o <<"o","d","e","E","n","c","o","d","e","E","r","r","o","r","'",">",","," ","'","U">>
        part16 ==
            <<"n","i","c","o","d","e","T","r","a","n","s","l","a","t","e","E","r","r","o","r">>
            \o <<"'",":"," ","<","c","l","a","s","s"," ","'","U","n","i","c","o","d","e","T","r">>
            \o <<"a","n","s","l","a","t","e","E","r","r","o","r","'",">",","," ","'","E","x","c">>
            \o <<"e","p","t","i","o","n","G","r","o","u","p","'",":"," ","<","c","l","a","s","s">>
            \o <<" ","'","E","x","c","e","p","t","i","o","n","G","r","o","u","p","'",">",","," ">>
            \o <<"'","E","n","v","i","r","o","n","m","e","n","t","E","r","r","o","r","'",":"," ">>
            \o <<"<","c","l","a","s","s"," ","'","O","S","E","r","r","o","r","'",">",","," ","'">>
            \o <<"I","O","E","r","r","o","r","'",":"," ","<","c","l","a","s","s"," ","'","O","S">>
            \o <<"E","r","r","o","r","'",">",","," ","'","o","p","e","n","'",":"," ","<","b","u">>
            \o <<"i","l","t","-","i","n"," ","f","u","n","c","t","i","o","n"," ","o","p","e","n">>
            \o <<">",","," ","'","q","u","i","t","'",":"," ","U","s","e"," ","q","u","i","t","(">>
            \o <<")"," ","o","r"," ","C","t","r","l","-","D"," ","(","i",".","e","."," ","E","O">>
            \o <<"F",")"," ","t","o"," ","e","x","i","t",","," ","'","e","x","i","t","'",":"," ">>
            \o <<"U","s","e"," ","e","x","i","t","(",")"," ","o","r"," ","C","t","r","l","-","D">>
            \o <<" ","(","i",".","e","."," ","E","O","F",")"," ","t","o"," ","e","x","i","t",",">>
            \o <<" ","'","c","o","p","y","r","i","g","h","t","'",":"," ","C","o","p","y","r","i">>
            \o <<"g","h","t"," ","(","c",")"," ","2","0","0","1","-","2","0","2","3"," ","P","y">>
            \o <<"t","h","o","n"," ","S","o","f","t","w","a","r","e"," ","F","o","u","n","d","a">>
            \o <<"t","i","o","n",".","\n","A","l","l"," ","R","i","g","h","t","s"," ","R","e","s">>
            \o <<"e","r","v","e","d",".","\n","\n","C","o","p","y","r","i","g","h","t"," ","(","c">>
        part17 ==
            <<")"," ","2","0","0","0"," ","B","e","O","p","e","n",".","c","o","m",".","\n","A">>
            \o <<"l","l"," ","R","i","g","h","t","s"," ","R","e","s","e","r","v","e","d",".","\n">>
            \o <<"\n","C","o","p","y","r","i","g","h","t"," ","(","c",")"," ","1","9","9","5","-">>
            \o <<"2","0","0","1"," ","C","o","r","p","o","r","a","t","i","o","n"," ","f","o","r">>
            \o <<" ","N","a","t","i","o","n","a","l"," ","R","e","s","e","a","r","c","h"," ","I">>
            \o <<"n","i","t","i","a","t","i","v","e","s",".","\n","A","l","l"," ","R","i","g","h">>
            \o <<"t","s"," ","R","e","s","e","r","v","e","d",".","\n","\n","C","o","p","y","r","i">>
            \o <<"g","h","t"," ","(","c",")"," ","1","9","9","1","-","1","9","9","5"," ","S","t">>
            \o <<"i","c","h","t","i","n","g"," ","M","a","t","h","e","m","a","t","i","s","c","h">>
            \o <<" ","C","e","n","t","r","u","m",","," ","A","m","s","t","e","r","d","a","m",".">>
            \o <<"\n","A","l","l"," ","R","i","g","h","t","s"," ","R","e","s","e","r","v","e","d">>
            \o <<".",","," ","'","c","r","e","d","i","t","s","'",":"," "," "," "," "," ","T","h">>
            \o <<"a","n","k","s"," ","t","o"," ","C","W","I",","," ","C","N","R","I",","," ","B">>
            \o <<"e","O","p","e","n",".","c","o","m",","," ","Z","o","p","e"," ","C","o","r","p">>
            \o <<"o","r","a","t","i","o","n"," ","a","n","d"," ","a"," ","c","a","s","t"," ","o">>
            \o <<"f"," ","t","h","o","u","s","a","n","d","s","\n"," "," "," "," ","f","o","r"," ">>
            \o <<"s","u","p","p","o","r","t","i","n","g"," ","P","y","t","h","o","n"," ","d","e">>
            \o <<"v","e","l","o","p","m","e","n","t","."," "," ","S","e","e"," ","w","w","w",".">>
            \o <<"p","y","t","h","o","n",".","o","r","g"," ","f","o","r"," ","m","o","r","e"," ">>
            \o <<"i","n","f","o","r","m","a","t","i","o","n",".",","," ","'","l","i","c","e","n">>
        part18 ==
            <<"s","e","'",":"," ","T","y","p","e"," ","l","i","c","e","n","s","e","(",")"," ">>
            \o <<"t","o"," ","s","e","e"," ","t","h","e"," ","f","u","l","l"," ","l","i","c","e">>
            \o <<"n","s","e"," ","t","e","x","t",","," ","'","h","e","l","p","'",":"," ","T","y">>
            \o <<"p","e"," ","h","e","l","p","(",")"," ","f","o","r"," ","i","n","t","e","r","a">>
            \o <<"c","t","i","v","e"," ","h","e","l","p",","," ","o","r"," ","h","e","l","p","(">>
            \o <<"o","b","j","e","c","t",")"," ","f","o","r"," ","h","e","l","p"," ","a","b","o">>
            \o <<"u","t"," ","o","b","j","e","c","t",".","}">>
    IN part1 \o part2 \o part3 \o part4 \o part5 \o part6 \o part7 \o part8 \o part9
       \o part10 \o part11 \o part12 \o part13 \o part14 \o part15 \o part16 \o part17 \o part18

\* str() of an object of the builtins module, by the name PyBuiltin holds
BuiltinStr(name) ==
    IF name \in {<<"E","l","l","i","p","s","i","s">>,
                 <<"N","o","t","I","m","p","l","e","m","e","n","t","e","d">>}
    THEN name
    ELSE IF name = <<"c","o","p","y","r","i","g","h","t">> THEN CopyrightText
    ELSE IF name = <<"c","r","e","d","i","t","s">> THEN CreditsText
    ELSE IF name = <<"l","i","c","e","n","s","e">> THEN LicenseText
    ELSE IF name = <<"h","e","l","p">> THEN HelpText
    ELSE IF name \in {<<"e","x","i","t">>, <<"q","u","i","t">>}
    THEN <<"U","s","e"," ">> \o name \o <<"(",")">> \o QuitterText
    ELSE IF name = <<"_","_","s","p","e","c","_","_">> THEN SpecText
    ELSE IF name = <<"_","_","b","u","i","l","t","i","n","s","_","_">> THEN BuiltinsDictText
    ELSE IF name = <<"B","u","i","l","t","i","n","I","m","p","o","r","t","e","r">>
    THEN <<"<","c","l","a","s","s"," ","'","_","f","r","o","z","e","n","_","i","m","p","o","r","t","l","i","b",".">>
         \o name \o <<"'",">">>
    ELSE IF name \in BuiltinFunctions
    THEN <<"<","b","u","i","l","t","-","i","n"," ","f","u","n","c","t","i","o","n"," ">>
         \o name \o <<">">>
    ELSE <<"<","c","l","a","s","s"," ","'">> \o name \o <<"'",">">>

\* str(value)
str(v) ==
    CASE v.t = "str" -> v.s
      [] v.t = "int" -> DecimalDigits(v.n)
      [] v.t = "bool" -> IF v.n = 1 THEN <<"T","r","u","e">> ELSE <<"F","a","l","s","e">>
      [] v.t = "none" -> <<"N","o","n","e">>
      [] v.t = "bytes" -> BytesRepr(v.s)
      [] v.t = "builtin" -> BuiltinStr(v.s)

\* a document: whether it was written, its page count, the fields its catalog
\* enumerates (reader.get_fields()) and the values written into its widgets or
\* stamped on its pages
NoPdf == [written |-> FALSE, pages |-> 0, fields |-> {}, values |-> [f \in {} |-> <<>>]]

\* auto_fill_flat_pdf_smart: [raised, coords, stamped, saved]; saved is the document
\* that doc.save(output_path) writes and files.download(output_path) hands over, and
\* a raise in the scan of the pages comes before both
auto_fill_flat_pdf_smart(pages, user_data) ==
    IF \E i \in DOMAIN pages, k \in DOMAIN user_data : CoordRaises(k, PageLines(pages[i]))
    THEN [raised |-> TRUE, coords |-> EmptyDict, stamped |-> EmptyDict, saved |-> NoPdf]
    ELSE LET coords == BuildCoords(pages, user_data)
             stamps == [k \in DOMAIN coords |-> [at |-> coords[k], text |-> str(user_data[k])]]
         IN [raised |-> FALSE, coords |-> coords, stamped |-> stamps,
             saved |-> [written |-> TRUE, pages |-> Len(pages), fields |-> {},
                        values |-> stamps]]

(***************************************************************************)
(* Text extractor: extract_text_from_pdf and extract_text_with_ocr,        *)
(* src/app11.py 19-25.  An uploaded file is a record: readable (the bytes  *)
(* open as a PDF), pages (the embedded text of each page, <<>> where       *)
(* page.extract_text() gives None or "") and scan (what the OCR engine     *)
(* reads on each page image).                                              *)
(***************************************************************************)
NoFile == [uploaded |-> FALSE, readable |-> FALSE, pages |-> <<>>, scan |-> <<>>]
PdfFile(readable, pages, scan) ==
    [uploaded |-> TRUE, readable |-> readable, pages |-> pages, scan |-> scan]

\* "\n".join(texts)
RECURSIVE JoinNewline(_)
JoinNewline(ts) ==
    IF ts = <<>> THEN <<>>
    ELSE IF Len(ts) = 1 THEN ts[1]
    ELSE ts[1] \o <<"\n">> \o JoinNewline(Tail(ts))

\* extract_text_from_pdf: pdfplumber.open raises on bytes that are no PDF, and
\* nothing in the function catches it: [raised, text]
extract_text_from_pdf(file_bytes) ==
    IF file_bytes.readable
    THEN [raised |-> FALSE, text |-> JoinNewline(file_bytes.pages)]
    ELSE [raised |-> TRUE, text |-> <<>>]

\* extract_text_with_ocr: convert_from_bytes or pytesseract raises when the engine
\* is not available or the bytes are no PDF: [raised, text]
extract_text_with_ocr(file_bytes, engine_available) ==
    IF file_bytes.readable /\ engine_available
    THEN [raised |-> FALSE, text |-> JoinNewline(file_bytes.scan)]
    ELSE [raised |-> TRUE, text |-> <<>>]

(***************************************************************************)
(* AcroForm enumeration, extraction and fill, src/app11.py 40-49, 228-242. *)
(* An AcroForm document is the sequence of its pages, each the set of the  *)
(* names of the fields whose widgets lie on it.                            *)
(***************************************************************************)
\* extract_acroform_fields: the keys of reader.get_fields()
extract_acroform_fields(fields_by_page) ==
    UNION {fields_by_page[i] : i \in DOMAIN fields_by_page}

\* re.search(field \s* : \s* (.*), line, IGNORECASE): the first index at which the
\* field name, then whitespace, then a colon match (0: no match)
FieldMatch(line, field) ==
    LET n == Len(field)
        hits == {p \in 1..(Len(line) - n + 1) :
                    /\ Lower(SubSeq(line, p, p + n - 1)) = Lower(field)
                    /\ RunEnd(line, p + n, Whitespace) + 1 <= Len(line)
                    /\ line[RunEnd(line, p + n, Whitespace) + 1] = ":"}
    IN IF hits = {} THEN 0 ELSE CHOOSE p \in hits : \A q \in hits : p <= q

\* match.group(1).strip() of a match at index p
FieldValue(line, field, p) ==
    LET colon == RunEnd(line, p + Len(field), Whitespace) + 1
    IN Strip(SubSeq(line, colon + 1, Len(line)))

\* the lines from index i on, data being the table so far: a later line overwrites
RECURSIVE InfoLines(_, _, _, _)
InfoLines(lines, i, field_names, data) ==
    IF i > Len(lines) THEN data
    ELSE LET found == {f \in field_names : FieldMatch(lines[i], f) > 0}
             here == [f \in found |-> FieldValue(lines[i], f, FieldMatch(lines[i], f))]
         IN InfoLines(lines, i + 1, field_names, here @@ data)

\* extract_info_from_text
extract_info_from_text(info_text, field_names) ==
    InfoLines(SplitLines(info_text), 1, field_names, [f \in {} |-> <<>>])

\* fill_pdf_acroform: a new PdfWriter gets every page of the reader; the values go to
\* the widgets of writer.pages[0] only; "/NeedAppearances" is put into the writer's
\* catalog, and the reader's "/AcroForm" (the field tree get_fields() enumerates) is
\* never copied into it
fill_pdf_acroform(fields_by_page, data) ==
    [written |-> TRUE,
     pages |-> Len(fields_by_page),
     fields |-> {},
     values |-> [f \in fields_by_page[1] \cap DOMAIN data |-> data[f]]]

\* a form without AcroForm fields, page for page
NoFields(pages) == [i \in DOMAIN pages |-> {}]

\* the AcroForm branch and the upload have not run
AcroIdle ==
    /\ form_fields = NoFields(form_pages)
    /\ acro_fields = {}
    /\ uploaded_file = NoFile
    /\ acro_text = <<>>
    /\ acro_user_data = [f \in {} |-> <<>>]
    /\ filled_pdf = NoPdf

(***************************************************************************)
(* The list a set is turned into: list(labels), src/app11.py line 38.  The *)
(* order of a set's elements is not defined: every ordering is possible.   *)
(***************************************************************************)
Orderings(S) == {q \in [1..Cardinality(S) -> S] : Range(q) = S}

(***************************************************************************)
(* Form download, main(), src/app11.py 1286-1295: requests.get(form_url)   *)
(* gives a response (its status, and a body that is a PDF, another text or *)
(* empty) or raises (status 0); the status is never read.                  *)
(***************************************************************************)
Response(status, body) == [status |-> status, body |-> body]
Raised == Response(0, "empty")
FormResponses == {Response(200, "pdf"), Response(200, "html"), Response(404, "html"),
                  Response(404, "empty"), Response(500, "pdf"), Raised}

(***************************************************************************)
(* PDF fetcher: fetch_pdf and find_pdf_in_html_page, src/app.py 575-642.   *)
(* The server maps a URL to what a GET of it answers: status 0 (the        *)
(* request raises), or a status, whether the Content-Type is               *)
(* application/pdf, whether the body is empty, and the <a href> links of   *)
(* the body in document order, each with its target URL, whether the href  *)
(* ends in ".pdf" and whether href and text hold one of the keywords tax,  *)
(* form, return, income.                                                   *)
(***************************************************************************)
Link(url, ends_pdf, keyword) == [url |-> url, ends_pdf |-> ends_pdf, keyword |-> keyword]
Answer(status, is_pdf, links) ==
    [status |-> status, is_pdf |-> is_pdf, empty |-> FALSE, links |-> links]
\* an answer whose body is the empty text
EmptyAnswer(status, is_pdf) ==
    [status |-> status, is_pdf |-> is_pdf, empty |-> TRUE, links |-> <<>>]
\* r.text: the text is empty or not, and the links in it
Text(r) == [empty |-> r.empty, links |-> r.links]
NoText == [empty |-> TRUE, links |-> <<>>]
NoLink == "none"

\* the scan of a page's links: the first .pdf link with a keyword, else the first
\* .pdf link, else None
IsPdfLink(l) == l.ends_pdf
IsKeywordLink(l) == l.keyword
ScanLinks(links) ==
    LET pdf_links == SelectSeq(links, IsPdfLink)
        relevant == SelectSeq(pdf_links, IsKeywordLink)
    IN IF relevant # <<>> THEN relevant[1].url
       ELSE IF pdf_links # <<>> THEN pdf_links[1].url
       ELSE NoLink

\* find_pdf_in_html_page(url, html_content): [link, requests], the link it returns
\* and the number of requests it makes.  Handed no text, or the empty text, it
\* requests the URL itself and scans that answer's text, whatever its status and
\* type; None from the except clause when that request raises
find_pdf_in_html_page(url, html_content, srv) ==
    IF html_content.empty
    THEN [link |-> IF srv[url].status = 0 THEN NoLink ELSE ScanLinks(srv[url].links),
          requests |-> 1]
    ELSE [link |-> ScanLinks(html_content.links), requests |-> 0]

\* the depth of nested fetch_pdf calls at which the interpreter raises RecursionError
RecursionLimit == 3

\* a call of fetch_pdf that never returns to a caller's except clause: the frame of
\* the call is reused, no depth is counted, no RecursionError is raised
fetch_pdf_unbounded(f, srv) ==
    LET r == srv[f.url]
        \* the answer is searched for a link: the search runs, or is due after a page
        searched == f.pc = "scanning" \/ (r.status = 200 /\ ~r.is_pdf)
        found == IF searched
                 THEN find_pdf_in_html_page(f.url,
                                            IF f.pc = "scanning" THEN NoText ELSE Text(r), srv)
                 ELSE [link |-> NoLink, requests |-> 0]
        made == found.requests + IF f.pc = "scanning" THEN 0 ELSE 1
    IN IF f.pc = "fetching" /\ r.status = 200 /\ ~r.is_pdf /\ r.empty
       THEN [f EXCEPT !.pc = "scanning", !.requests = (f.requests + 1) % 2]
       ELSE IF found.link # NoLink
       THEN [f EXCEPT !.pc = "fetching", !.url = found.link,
                      !.requests = (f.requests + made) % 2]
       ELSE [f EXCEPT !.pc = "returned", !.requests = (f.requests + made) % 2,
                      !.result = IF f.pc = "fetching" /\ r.status = 200 /\ r.is_pdf
                                 THEN f.url ELSE "none"]

\* one request of a call of fetch_pdf(url), with what follows from its answer, f
\* being the state of the fetch.  The request of fetch_pdf itself (f.pc =
\* "fetching"): the PDF's bytes on 200 and application/pdf; on 200 and another
\* type the search of the answer's text, which on an empty text waits for the
\* request of find_pdf_in_html_page (f.pc = "scanning"); the nested call
\* fetch_pdf(pdf_url) when the search finds a link; None otherwise, and None from
\* the except clause when the request raises or, at the recursion limit, the
\* nested call does
fetch_pdf(f, srv) ==
    LET r == srv[f.url]
        \* the answer is searched for a link: the search runs, or is due after a page
        searched == f.pc = "scanning" \/ (r.status = 200 /\ ~r.is_pdf)
        found == IF searched
                 THEN find_pdf_in_html_page(f.url,
                                            IF f.pc = "scanning" THEN NoText ELSE Text(r), srv)
                 ELSE [link |-> NoLink, requests |-> 0]
        \* the requests of this step: the one of fetch_pdf, or those of the search
        made == found.requests + IF f.pc = "scanning" THEN 0 ELSE 1
    IN IF f.pc = "fetching" /\ f.depth >= RecursionLimit
       THEN [f EXCEPT !.pc = "returned", !.result = "none"]
       ELSE IF f.pc = "fetching" /\ r.status = 200 /\ ~r.is_pdf /\ r.empty
       THEN [f EXCEPT !.pc = "scanning", !.requests = f.requests + 1]
       ELSE IF found.link # NoLink
       THEN [f EXCEPT !.pc = "fetching", !.url = found.link, !.depth = f.depth + 1,
                      !.requests = f.requests + made]
       ELSE [f EXCEPT !.pc = "returned", !.requests = f.requests + made,
                      !.result = IF f.pc = "fetching" /\ r.status = 200 /\ r.is_pdf
                                 THEN f.url ELSE "none"]

NoFetch == [pc |-> "idle", url |-> "u1", depth |-> 0, requests |-> 0, result |-> "none"]

(***************************************************************************)
(* st.session_state: the search history (add_to_history, src/app.py        *)
(* 777-787) and the form in hand (suggest_other_forms, src/app.py 798-822) *)
(***************************************************************************)
HistoryLimit == 10

\* add_to_history without the trim
add_to_history_untrimmed(history, entry) == Append(history, entry)

\* add_to_history: append, then keep the last HistoryLimit entries
add_to_history(history, entry) ==
    LET h == Append(history, entry)
    IN IF Len(h) > HistoryLimit THEN SubSeq(h, Len(h) - HistoryLimit + 1, Len(h)) ELSE h

\* the search results are links; the PDF behind a link, and the fields
\* extract_form_fields reads from it
Results == <<"r1", "r2", "r3", "r4", "r5", "r6">>
extract_form_fields(pdf) ==
    CASE pdf = "r1" -> <<"Name">>
      [] pdf = "r2" -> <<"Name", "CNIC">>
      [] pdf = "r3" -> <<"CNIC">>
      [] pdf = "r4" -> <<"Date", "Name">>
      [] pdf = "r5" -> <<"Date">>
      [] OTHER -> <<>>

\* other_forms: the first five results without the selected one
RECURSIVE OtherForms(_, _, _)
OtherForms(results, i, selected_idx) ==
    IF i > Len(results) \/ i > 5 THEN <<>>
    ELSE (IF i - 1 # selected_idx THEN <<results[i]>> ELSE <<>>)
         \o OtherForms(results, i + 1, selected_idx)

NoSession == [search_history |-> <<>>, search_results |-> <<>>, selected_pdf |-> -1,
              pdf_bytes |-> "none", form_fields |-> <<>>]

(***************************************************************************)
(* Fill operations: each fills its document in memory, saves it under the  *)
(* fixed name of its branch in the one working directory, and then hands   *)
(* the file of that name to its caller, each a step of its own:            *)
(*   "filled_form.pdf": open(..., "wb") (src/app11.py line 1316), the      *)
(*   write (line 1317) and files.download (line 1318);                     *)
(*   "smart_filled_form.pdf": doc.save (line 279) and files.download (line *)
(*   280), both inside the call of line 1345.                              *)
(* The operation of main() is operation 1; operation 2 is another run of   *)
(* main() in the same directory at the same time.                          *)
(***************************************************************************)
Operations == {1, 2}
OutputPaths == {"filled_form.pdf", "smart_filled_form.pdf"}
\* what a path of the directory holds, and what a caller has been handed: no file,
\* or a file with the bytes of a document, followed by the tail bytes that an earlier,
\* longer content has left behind them
NoDocument == [exists |-> FALSE, doc |-> NoPdf, tail |-> 0]
EmptyFile == [exists |-> TRUE, doc |-> NoPdf, tail |-> 0]
FileOf(document) == [exists |-> TRUE, doc |-> document, tail |-> 0]

\* the number of bytes of an AcroForm document, up to what all documents of one form
\* share: its pages and the characters of its values
RECURSIVE ValueBytes(_, _)
ValueBytes(values, fields) ==
    IF fields = {} THEN 0
    ELSE LET f == CHOOSE x \in fields : TRUE
         IN Len(values[f]) + ValueBytes(values, fields \ {f})
DocumentBytes(document) ==
    IF document.written THEN document.pages + ValueBytes(document.values, DOMAIN document.values)
    ELSE 0
FileBytes(file) == DocumentBytes(file.doc) + file.tail

\* a fill operation: where it stands (idle, filling: the document is filled in
\* memory, opened, saved, done, raised), its file name, its document, and the file it
\* has handed to its caller
NoOperation == [pc |-> "idle", path |-> "filled_form.pdf", values |-> NoPdf,
                handed |-> NoDocument]
Filling(path, document) == [pc |-> "filling", path |-> path, values |-> document,
                            handed |-> NoDocument]

\* nothing outside the fill operation has run
OtherIdle ==
    /\ label_list \in Orderings(labels)
    /\ form_resp = Response(200, "pdf")
    /\ fetch = NoFetch
    /\ server = [u \in {"u1"} |-> EmptyAnswer(0, FALSE)]
    /\ session_state = NoSession
    /\ added = <<>>
    /\ ops = [o \in Operations |-> NoOperation]
    /\ disk = [p \in OutputPaths |-> NoDocument]

(***************************************************************************)
(* The fill operation: main(), src/app11.py 1286-1346                      *)
(***************************************************************************)
\* every string made of at most n pieces of P
Joined(P, n) == {Concat(q) : q \in UNION {[1..k -> P] : k \in 0..n}}

\* not text.strip(): the text is empty or whitespace only
IsBlank(t) == Strip(t) = <<>>

\* lines 1286-1298: the form is requested; a raised request and an empty body leave
\* no form ("You can fill the form manually"); any other body, whatever the status,
\* is handed to PdfReader, which raises on a body that is no PDF
Download(responses) ==
    /\ pc = "download"
    /\ \E r \in responses :
          /\ form_resp' = r
          /\ IF r = Raised \/ r.body = "empty"
             THEN pc' = "no_form" /\ fault' = fault
             ELSE IF r.body # "pdf"
             THEN pc' = "raised" /\ fault' = "enumeration"
             ELSE pc' = "form" /\ fault' = fault
    /\ UNCHANGED <<form_pages, labels, user_text, raw_user_data, content,
                   field_mapping, final_user_data, coords_map, stamped, acro>>
    /\ UNCHANGED <<label_list, fetch, server, session_state, added, ops, disk>>

\* lines 1296-1303: the form has AcroForm fields, the AcroForm branch is taken
EnumerateAcroFields ==
    /\ pc = "form"
    /\ extract_acroform_fields(form_fields) # {}
    /\ acro_fields' = extract_acroform_fields(form_fields)
    /\ pc' = "acro_enumerated"
    /\ UNCHANGED <<fault, form_pages, labels, user_text, raw_user_data, content,
                   field_mapping, final_user_data, coords_map, stamped,
                   form_fields, uploaded_file, acro_text, acro_user_data, filled_pdf>>
    /\ UNCHANGED <<label_list, other>>

\* lines 1304-1307, mode "1": one pass of the loop over the fields.  The loop waits
\* at input() once per field, in the order of the field tree (which the pages of the
\* document do not fix), and writes the typed value into the table; an input() that
\* raises (end of input, an interrupt) ends the operation with the table as it is
EnterManually(inputs) ==
    /\ pc \in {"acro_enumerated", "entering"}
    /\ \E field \in acro_fields \ DOMAIN acro_user_data :
          \/ \E value \in inputs :
                /\ acro_user_data' = (field :> value) @@ acro_user_data
                /\ pc' = IF acro_fields \ DOMAIN acro_user_data = {field}
                         THEN "acro_data" ELSE "entering"
                /\ fault' = fault
          \/ /\ pc' = "raised"
             /\ fault' = "input"
             /\ UNCHANGED acro_user_data
    /\ UNCHANGED <<form_pages, labels, user_text, raw_user_data, content,
                   field_mapping, final_user_data, coords_map, stamped,
                   form_fields, acro_fields, uploaded_file, acro_text, filled_pdf>>
    /\ UNCHANGED <<label_list, other>>

\* lines 1309-1313, any other mode: the uploaded document's embedded text, searched
\* for the field names; no OCR pass, no parser, no field mapper.  An upload that
\* brings no file leaves next(iter(uploaded.values())) nothing to take: it raises
UploadInfo(uploads) ==
    /\ pc = "acro_enumerated"
    /\ \/ \E file \in uploads :
             LET embedded == extract_text_from_pdf(file)
             IN /\ uploaded_file' = file
                /\ IF embedded.raised
                   THEN /\ pc' = "raised"
                        /\ fault' = "extraction"
                        /\ UNCHANGED <<acro_text, acro_user_data>>
                   ELSE /\ acro_text' = embedded.text
                        /\ acro_user_data' = extract_info_from_text(embedded.text, acro_fields)
                        /\ pc' = "acro_data"
                        /\ fault' = fault
       \/ /\ pc' = "raised"
          /\ fault' = "upload"
          /\ UNCHANGED <<uploaded_file, acro_text, acro_user_data>>
    /\ UNCHANGED <<form_pages, labels, user_text, raw_user_data, content,
                   field_mapping, final_user_data, coords_map, stamped,
                   form_fields, acro_fields, filled_pdf>>
    /\ UNCHANGED <<label_list, other>>

\* line 1315, filled_pdf = fill_pdf_acroform(form_bytes, user_data): the document is
\* filled in memory; nothing is on the disk yet
FillAcro ==
    /\ pc = "acro_data"
    /\ filled_pdf' = fill_pdf_acroform(form_fields, acro_user_data)
    /\ ops' = [ops EXCEPT ![1] = Filling("filled_form.pdf",
                                         fill_pdf_acroform(form_fields, acro_user_data))]
    /\ pc' = "filled"
    /\ UNCHANGED <<fault, form_pages, labels, user_text, raw_user_data, content,
                   field_mapping, final_user_data, coords_map, stamped,
                   form_fields, acro_fields, uploaded_file, acro_text, acro_user_data>>
    /\ UNCHANGED <<label_list, form_resp, fetch, server, session_state, added, disk>>

\* lines 1296-1322: the form has no AcroForm field, the flat branch is taken
ExtractLabels ==
    /\ pc = "form"
    /\ extract_acroform_fields(form_fields) = {}
    /\ acro_fields' = {}
    /\ labels' = extract_labels_from_text(form_pages)
    /\ pc' = "enumerated"
    /\ UNCHANGED <<fault, form_pages, user_text, raw_user_data, content, field_mapping,
                   final_user_data, coords_map, stamped,
                   form_fields, uploaded_file, acro_text, acro_user_data, filled_pdf>>
    /\ label_list' \in Orderings(extract_labels_from_text(form_pages))
    /\ UNCHANGED other

\* lines 1326-1332: the uploaded document's embedded text, or the OCR text when the
\* embedded text is blank; what either extractor raises is not caught, and neither
\* is what next(iter(uploaded.values())) raises on an upload that brings no file
Upload(uploads) ==
    /\ pc = "enumerated"
    /\ \/ \E file \in uploads, engine_available \in BOOLEAN :
             LET embedded == extract_text_from_pdf(file)
                 ocr == extract_text_with_ocr(file, engine_available)
             IN /\ uploaded_file' = file
                /\ IF embedded.raised
                   THEN /\ pc' = "raised"
                        /\ fault' = "extraction"
                        /\ UNCHANGED user_text
                   ELSE IF IsBlank(embedded.text) /\ ocr.raised
                   THEN /\ pc' = "raised"
                        /\ fault' = "ocr"
                        /\ user_text' = embedded.text
                   ELSE /\ user_text' = IF IsBlank(embedded.text) THEN ocr.text ELSE embedded.text
                        /\ pc' = "uploaded"
                        /\ fault' = fault
       \/ /\ pc' = "raised"
          /\ fault' = "upload"
          /\ UNCHANGED <<uploaded_file, user_text>>
    /\ UNCHANGED <<form_pages, labels, raw_user_data, content, field_mapping,
                   final_user_data, coords_map, stamped,
                   form_fields, acro_fields, acro_text, acro_user_data, filled_pdf>>
    /\ UNCHANGED <<label_list, other>>

ExtractAllFields ==
    /\ pc = "uploaded"
    /\ raw_user_data' = extract_all_fields_from_text(user_text)
    /\ pc' = "parsed"
    /\ UNCHANGED <<fault, form_pages, labels, user_text, content, field_mapping,
                   final_user_data, coords_map, stamped>>
    /\ UNCHANGED acro
    /\ UNCHANGED <<label_list, other>>

\* get_field_mapping_from_llm: the completion call returns a response, whose stripped
\* text is the content, or raises; nothing in the function or in main() catches what
\* the call raises
GetFieldMapping(responses) ==
    /\ pc = "parsed"
    /\ \/ \E response \in responses :
             /\ content' = Strip(response)
             /\ field_mapping' = ParseResponse(response)
             /\ pc' = "mapped"
             /\ fault' = fault
       \/ /\ pc' = "raised"
          /\ fault' = "inference"
          /\ UNCHANGED <<content, field_mapping>>
    /\ UNCHANGED <<form_pages, labels, user_text, raw_user_data, final_user_data,
                   coords_map, stamped>>
    /\ UNCHANGED acro
    /\ UNCHANGED <<label_list, other>>

\* reconstruct_user_data; field_mapping.items() raises when the mapper returned no dict
Reconstruct ==
    /\ pc = "mapped"
    /\ IF field_mapping.kind = "dict"
       THEN /\ final_user_data' = reconstruct_user_data(field_mapping.d, raw_user_data)
            /\ pc' = "reconstructed"
            /\ fault' = fault
       ELSE /\ pc' = "raised"
            /\ fault' = "reconstruct"
            /\ UNCHANGED final_user_data
    /\ UNCHANGED <<form_pages, labels, user_text, raw_user_data, content, field_mapping,
                   coords_map, stamped>>
    /\ UNCHANGED acro
    /\ UNCHANGED <<label_list, other>>

\* line 1345, auto_fill_flat_pdf_smart(form_bytes, "smart_filled_form.pdf",
\* final_user_data), up to its line 278: the scan of the pages and the stamps of
\* str(value) on the document in memory.  The call goes on with doc.save (line 279)
\* and files.download (line 280), the steps Save(1) and HandBack(1) below, which
\* follow FillFlat in every specification: they are steps of their own because the
\* file they write and read is the one file of its name, which another operation can
\* write between the two
FillFlat ==
    /\ pc = "reconstructed"
    /\ LET r == auto_fill_flat_pdf_smart(form_pages, final_user_data)
       IN /\ coords_map' = r.coords
          /\ stamped' = r.stamped
          /\ pc' = IF r.raised THEN "raised" ELSE "filled"
          /\ fault' = IF r.raised THEN "fill" ELSE fault
          /\ ops' = IF r.raised THEN ops
                    ELSE [ops EXCEPT ![1] = Filling("smart_filled_form.pdf", r.saved)]
    /\ UNCHANGED <<form_pages, labels, user_text, raw_user_data, content, field_mapping,
                   final_user_data>>
    /\ UNCHANGED acro
    /\ UNCHANGED <<label_list, form_resp, fetch, server, session_state, added, disk>>

\* the variables that no step of the save and the hand-back changes
undelivered == <<form_pages, labels, user_text, raw_user_data, content, field_mapping,
                 final_user_data, coords_map, stamped, acro, label_list, form_resp,
                 fetch, server, session_state, added>>

\* open("filled_form.pdf", "wb"), line 1316: the file is created, or cut to no bytes
\* when it exists, whatever another operation has written to it
Open(o) ==
    /\ ops[o].pc = "filling"
    /\ ops[o].path = "filled_form.pdf"
    /\ disk' = [disk EXCEPT ![ops[o].path] = EmptyFile]
    /\ ops' = [ops EXCEPT ![o].pc = "opened"]
    /\ UNCHANGED <<pc, fault, undelivered>>

\* f.write(filled_pdf.read()) and the close of the file, line 1317: the bytes of the
\* document go to the start of the file as it is now, over what another operation has
\* written since the open, whose bytes beyond the document's length stay
Write(o) ==
    /\ ops[o].pc = "opened"
    /\ LET left == FileBytes(disk[ops[o].path]) - DocumentBytes(ops[o].values)
       IN disk' = [disk EXCEPT ![ops[o].path] =
                       [exists |-> TRUE, doc |-> ops[o].values,
                        tail |-> IF left > 0 THEN left ELSE 0]]
    /\ ops' = [ops EXCEPT ![o].pc = "saved"]
    /\ UNCHANGED <<pc, fault, undelivered>>

\* doc.save(output_path), line 279: the document replaces the file of the path
Save(o) ==
    /\ ops[o].pc = "filling"
    /\ ops[o].path = "smart_filled_form.pdf"
    /\ disk' = [disk EXCEPT ![ops[o].path] = FileOf(ops[o].values)]
    /\ ops' = [ops EXCEPT ![o].pc = "saved"]
    /\ UNCHANGED <<pc, fault, undelivered>>

\* files.download(output_path), lines 280 and 1318: what the file holds now is handed
\* to the caller; or files.download raises, nothing is handed, the file stays, and
\* the exception leaves main()
HandBack(o) ==
    /\ ops[o].pc = "saved"
    /\ \/ /\ ops' = [ops EXCEPT ![o].pc = "done", ![o].handed = disk[ops[o].path]]
          /\ UNCHANGED <<pc, fault>>
       \/ /\ ops' = [ops EXCEPT ![o].pc = "raised"]
          /\ pc' = IF o = 1 /\ pc = "filled" THEN "raised" ELSE pc
          /\ fault' = IF o = 1 /\ pc = "filled" THEN "download" ELSE fault
    /\ UNCHANGED <<disk, undelivered>>

\* the strings the model's inputs are made of
sFirst == <<"F","i","r","s","t">>
sLast == <<"L","a","s","t">>
sAli == <<"A","l","i">>
sKhan == <<"K","h","a","n">>
sPlus == <<" ","+"," ">>
sPlusSpacePlus == <<" ","+"," ","'"," ","'"," ","+"," ">>
sOne == <<"1">>
sSpace == <<" ">>
sX == <<"X">>
sZ == <<"Z">>
sV == <<"v">>
sFull_ == <<"F","u","l","l"," ">>
sName == <<"N","a","m","e">>
s_John == <<" ","J","o","h","n">>
s_Smith == <<" ","S","m","i","t","h">>
sColonSpace == <<":"," ">>
sDots == <<".",".">>
sNewline == <<"\n">>
sFullName == <<"F","u","l","l"," ","N","a","m","e">>
sJohn == <<"J","o","h","n">>
sJohnSmith == <<"J","o","h","n"," ","S","m","i","t","h">>
sOrdinal == <<"3","."," ">>
sFather == <<"F","a","t","h","e","r">>
sApostropheS == <<"'","s">>
s_NameColon == <<" ","N","a","m","e",":">>
sDate == <<"D","a","t","e">>
sColon == <<":">>
sFathersName == <<"F","a","t","h","e","r","'","s"," ","N","a","m","e">>
sOpen == <<"{">>
sClose == <<"}">>
sXFirst == <<"\"","X","\"",":"," ","\"","F","i","r","s","t","\"">>
sXQuoted == <<"'","X","'">>
sComma == <<","," ">>
sZNull == <<"\"","Z","\"",":"," ","n","u","l","l">>
sZNone == <<"'","Z","'",":"," ","N","o","n","e">>
sNotJson == <<"n","o","t"," ","j","s","o","n">>
sNull == <<"n","u","l","l">>

(***************************************************************************)
(* Specification of the data reconstructor and the filler after it: every  *)
(* mapping of slot X to None or to an expression of at most MaxExprPieces  *)
(* pieces, with slot Z absent, None or a label; every user data over the   *)
(* labels First and Last, with or without the expression itself as a label *)
(***************************************************************************)
MaxExprPieces == 3
ExprPieces == {sFirst, sLast, sPlus, sPlusSpacePlus, sOne, sSpace, sNewline}
Exprs == Joined(ExprPieces, MaxExprPieces)
SlotX == PyStr(sX)
SlotZ == PyStr(sZ)
BaseData == (sFirst :> sAli) @@ (sLast :> sKhan)
\* a form with a line for slot X and a line for slot Z
ReconForm == <<"X",":","\n","Z",":">>

InitRecon ==
    /\ pc = "mapped"
    /\ fault = "none"
    /\ form_pages = <<ReconForm>>
    /\ labels = extract_labels_from_text(form_pages)
    /\ user_text = <<>>
    /\ content = <<>>
    /\ \E x \in {PyNone} \cup {PyStr(e) : e \in Exprs},
          zs \in {EmptyDict, SlotZ :> PyNone, SlotZ :> PyStr(sLast)},
          base \in SUBSET DOMAIN BaseData,
          extra \in BOOLEAN :
          /\ field_mapping = Mapping("dict", (SlotX :> x) @@ zs)
          /\ raw_user_data = (IF extra /\ x.t = "str" THEN x.s :> sV ELSE EmptyData)
                             @@ [k \in base |-> BaseData[k]]
    /\ final_user_data = EmptyDict
    /\ coords_map = EmptyDict
    /\ stamped = EmptyDict
    /\ AcroIdle
    /\ OtherIdle

NextRecon == Reconstruct \/ FillFlat \/ Save(1) \/ HandBack(1)
SpecRecon == InitRecon /\ [][NextRecon]_vars

(***************************************************************************)
(* Claims about the data reconstructor (SpecRecon)                         *)
(***************************************************************************)
Reconstructed == pc \in {"reconstructed", "filled"}

\* C1: mapping round-trip: once the reconstructor has run, every slot whose mapping
\* entry is a string that is a user-data label with a non-empty value maps, in the
\* reconstructed table, to exactly that value, whatever characters the label contains
C1_MappingRoundTrip ==
    Reconstructed =>
        \A f \in DOMAIN field_mapping.d :
            LET y == field_mapping.d[f]
            IN (y.t = "str" /\ y.s \in DOMAIN raw_user_data /\ raw_user_data[y.s] # <<>>)
               => /\ f \in DOMAIN final_user_data
                  /\ final_user_data[f] = PyStr(raw_user_data[y.s])

\* C2: null mapping: a slot whose mapping entry is None is never a key of the
\* reconstructed table, and the fill step never stamps a value for it
C2_NullMappingNeverFilled ==
    \A f \in DOMAIN field_mapping.d :
        field_mapping.d[f].t = "none" =>
            /\ Reconstructed => f \notin DOMAIN final_user_data
            /\ f \notin DOMAIN stamped

\* C2 witness: the fill has run on a mapping with a None slot and a resolved slot,
\* and only the resolved slot was stamped
C2_Witness ==
    /\ pc = "filled"
    /\ SlotZ \in DOMAIN field_mapping.d
    /\ field_mapping.d[SlotZ].t = "none"
    /\ SlotX \in DOMAIN stamped
    /\ SlotZ \notin DOMAIN stamped

\* the operands and the separators of a concatenation expression
ConcatOperands == {sFirst, sLast}
ConcatSeparators == {sPlus, sPlusSpacePlus}
\* the piece sequences operand (separator operand)* of at most MaxExprPieces pieces
ConcatForms ==
    {q \in UNION {[1..k -> ExprPieces] : k \in 1..MaxExprPieces} :
        /\ Len(q) % 2 = 1
        /\ \A i \in DOMAIN q : IF i % 2 = 1 THEN q[i] \in ConcatOperands
                                            ELSE q[i] \in ConcatSeparators}
\* the string a concatenation expression denotes: its labels' values, with a space
\* where the separator holds the literal ' '
RECURSIVE ConcatValue(_, _)
ConcatValue(q, raw) ==
    IF Len(q) = 1 THEN raw[q[1]]
    ELSE raw[q[1]] \o (IF q[2] = sPlusSpacePlus THEN <<" ">> ELSE <<>>)
         \o ConcatValue(SubSeq(q, 3, Len(q)), raw)

\* C3: expression evaluation: a slot mapped to a concatenation expression over
\* user-data labels that are identifiers is reconstructed to the concatenated string
C3_ExpressionEvaluation ==
    Reconstructed =>
        \A q \in ConcatForms :
            (/\ \A i \in DOMAIN q : i % 2 = 1 => q[i] \in DOMAIN raw_user_data
             /\ field_mapping.d[SlotX] = PyStr(Concat(q)))
            => /\ SlotX \in DOMAIN final_user_data
               /\ final_user_data[SlotX] = PyStr(ConcatValue(q, raw_user_data))

\* C3 witness: "First + ' ' + Last" with First = "Ali" and Last = "Khan" gave "Ali Khan"
C3_Witness ==
    /\ Reconstructed
    /\ field_mapping.d[SlotX] = PyStr(sFirst \o sPlusSpacePlus \o sLast)
    /\ raw_user_data = BaseData
    /\ final_user_data[SlotX] = PyStr(sAli \o <<" ">> \o sKhan)

(***************************************************************************)
(* Specification of the names a mapping expression can use: every          *)
(* expression of at most MaxNamePieces pieces, among them a name that is a *)
(* builtin (id), a name that is bound nowhere (Age) and a reserved word    *)
(* (class), which the user data may hold as a label                        *)
(***************************************************************************)
sId == <<"i","d">>
sAge == <<"A","g","e">>
sClass == <<"c","l","a","s","s">>
MaxNamePieces == 3
NamePieces == {sFirst, sLast, sId, sAge, sClass, sPlus, sSpace}
NameExprs == Joined(NamePieces, MaxNamePieces)

InitNames ==
    /\ pc = "mapped"
    /\ fault = "none"
    /\ form_pages = <<ReconForm>>
    /\ labels = extract_labels_from_text(form_pages)
    /\ user_text = <<>>
    /\ content = <<>>
    /\ \E e \in NameExprs,
          zs \in {EmptyDict, SlotZ :> PyNone, SlotZ :> PyStr(sLast)},
          base \in SUBSET DOMAIN BaseData,
          extra \in {"none", "expression", "class"} :
          /\ field_mapping = Mapping("dict", (SlotX :> PyStr(e)) @@ zs)
          /\ raw_user_data = (IF extra = "expression" THEN e :> sV
                              ELSE IF extra = "class" THEN sClass :> sV
                              ELSE EmptyData)
                             @@ [k \in base |-> BaseData[k]]
    /\ final_user_data = EmptyDict
    /\ coords_map = EmptyDict
    /\ stamped = EmptyDict
    /\ AcroIdle
    /\ OtherIdle

NextNames == Reconstruct \/ FillFlat \/ Save(1) \/ HandBack(1)
SpecNames == InitNames /\ [][NextNames]_vars

\* the names an expression uses that are no user-data label (None, True and False are
\* constants of the language, not names)
UnboundNames(expr, raw) ==
    LET toks == PyTokens(expr, 1, 0)
    IN {toks[i].s : i \in {j \in DOMAIN toks : toks[j].k = "name"}}
       \ (DOMAIN raw \cup {<<"N","o","n","e">>, <<"T","r","u","e">>, <<"F","a","l","s","e">>})

\* C12: while a mapping expression is evaluated only the user-data labels resolve: an
\* expression that uses another name (a builtin's included) evaluates to nothing, so
\* its slot holds the value of the key lookup or is absent, never a builtin object
C12_OnlyLabelsResolve ==
    Reconstructed =>
        \A f \in DOMAIN field_mapping.d :
            LET y == field_mapping.d[f]
            IN (y.t = "str" /\ UnboundNames(y.s, raw_user_data) # {})
               => IF y.s \in DOMAIN raw_user_data
                  THEN f \in DOMAIN final_user_data
                       /\ final_user_data[f] = PyStr(raw_user_data[y.s])
                  ELSE f \notin DOMAIN final_user_data

\* the mapping value cannot be evaluated as an expression over the labels present:
\* it uses a missing label, or it is malformed
EvaluationFails(expr, raw) ==
    UnboundNames(expr, raw) # {} \/ PyEval(expr, raw).t = "raise"

\* the mapping without the entry of slot f
Without(fm, f) == [g \in DOMAIN fm \ {f} |-> fm[g]]

\* C13: reconstruction failure is recovered per entry: an entry whose value cannot be
\* evaluated does not make the reconstructor raise, resolves to the value of the key
\* lookup, is omitted when the key is absent, and leaves every other entry resolved
\* as without it
C13_PerEntryFallback ==
    pc # "mapped" =>
        \A f \in DOMAIN field_mapping.d :
            LET y == field_mapping.d[f]
                others == reconstruct_user_data(Without(field_mapping.d, f), raw_user_data)
            IN (y.t = "str" /\ EvaluationFails(y.s, raw_user_data))
               => /\ fault # "reconstruct"
                  /\ IF y.s \in DOMAIN raw_user_data
                     THEN f \in DOMAIN final_user_data
                          /\ final_user_data[f] = PyStr(raw_user_data[y.s])
                     ELSE f \notin DOMAIN final_user_data
                  /\ Without(final_user_data, f) = others

(***************************************************************************)
(* Specification of the user-data parser: every text of at most            *)
(* MaxTextPieces pieces                                                    *)
(***************************************************************************)
MaxTextPieces == 4
TextPieces == {sFull_, sName, s_John, s_Smith, sColonSpace, sDots, sOne, sNewline,
               <<FullWidthColon>>}

InitParse ==
    /\ pc = "uploaded"
    /\ fault = "none"
    /\ form_pages = <<ReconForm>>
    /\ labels = extract_labels_from_text(form_pages)
    /\ user_text \in Joined(TextPieces, MaxTextPieces)
    /\ raw_user_data = EmptyData
    /\ content = <<>>
    /\ field_mapping = Mapping("dict", EmptyDict)
    /\ final_user_data = EmptyDict
    /\ coords_map = EmptyDict
    /\ stamped = EmptyDict
    /\ AcroIdle
    /\ OtherIdle

NextParse == ExtractAllFields
SpecParse == InitParse /\ [][NextParse]_vars

\* the text is one line
OneLine == user_text # <<>> /\ "\n" \notin Range(user_text)

\* C4: longest match of the space-separated format: the line "Full Name John Smith"
\* parses to the entry "Full Name" -> "John Smith"
C4_LongestMatchFullName ==
    (pc = "parsed" /\ user_text = sFull_ \o sName \o s_John \o s_Smith)
    => raw_user_data = (sFullName :> sJohnSmith)

\* C5: strategy priority: a line that matches both the colon pattern and the
\* dotted-line pattern yields the colon strategy's entry and nothing else
C5_ColonBeforeDots ==
    (/\ pc = "parsed"
     /\ OneLine
     /\ match_colon(CleanLine(user_text)).ok
     /\ match_dots(CleanLine(user_text)).ok)
    => raw_user_data = (match_colon(CleanLine(user_text)).label
                        :> match_colon(CleanLine(user_text)).value)

\* C5 witness: a parsed line on which the two patterns give different labels
C5_Witness ==
    /\ pc = "parsed"
    /\ user_text = sName \o sDots \o sColonSpace \o s_John
    /\ match_colon(CleanLine(user_text)).ok
    /\ match_dots(CleanLine(user_text)).ok
    /\ match_dots(CleanLine(user_text)).label # match_colon(CleanLine(user_text)).label
    /\ DOMAIN raw_user_data = {sName \o sDots}

\* C6: colon format: a line label, colon (ASCII or full-width), value parses to the
\* trimmed text before the separator -> the trimmed text after it, for every label text
C6_ColonFormatEveryLabel ==
    LET line == CleanLine(user_text)
        c == FindIn(line, 1, Colons)
        label == Strip(SubSeq(line, 1, c - 1))
        value == Strip(SubSeq(line, c + 1, Len(line)))
    IN (pc = "parsed" /\ OneLine /\ c > 0 /\ label # <<>> /\ value # <<>>)
       => raw_user_data = (label :> value)

(***************************************************************************)
(* Specification of the parser on several lines: every personal document   *)
(* of at most MaxLines lines, where lines of the colon, the dotted and the *)
(* space-separated format parse to the same label                          *)
(***************************************************************************)
MaxLines == 3
LinePool == {sName \o sColonSpace \o sAli, sName \o sDots \o sKhan, sName \o s_John,
             sName \o sColonSpace \o sKhan, sFirst \o sColonSpace \o sKhan, sOne}

RECURSIVE JoinLines(_)
JoinLines(lines) ==
    IF lines = <<>> THEN <<>>
    ELSE IF Len(lines) = 1 THEN lines[1]
    ELSE lines[1] \o sNewline \o JoinLines(Tail(lines))

LineTexts == {JoinLines(ls) : ls \in UNION {[1..n -> LinePool] : n \in 1..MaxLines}}

InitLines ==
    /\ pc = "uploaded"
    /\ fault = "none"
    /\ form_pages = <<ReconForm>>
    /\ labels = extract_labels_from_text(form_pages)
    /\ user_text \in LineTexts
    /\ raw_user_data = EmptyData
    /\ content = <<>>
    /\ field_mapping = Mapping("dict", EmptyDict)
    /\ final_user_data = EmptyDict
    /\ coords_map = EmptyDict
    /\ stamped = EmptyDict
    /\ AcroIdle
    /\ OtherIdle

NextLines == ExtractAllFields
SpecLines == InitLines /\ [][NextLines]_vars

\* C23: last-line-wins: when several lines of the document parse to the same label,
\* the returned mapping holds for the label the value of the last such line,
\* whichever of the three strategies parsed each line
C23_LastLineWins ==
    LET lines == SplitLines(user_text)
    IN pc = "parsed"
       => \A i \in DOMAIN lines :
              ParseLine(lines[i]).ok
              => LET same == {j \in DOMAIN lines : /\ ParseLine(lines[j]).ok
                                                   /\ ParseLine(lines[j]).label = ParseLine(lines[i]).label}
                     last == CHOOSE j \in same : \A k \in same : k <= j
                 IN /\ ParseLine(lines[i]).label \in DOMAIN raw_user_data
                    /\ raw_user_data[ParseLine(lines[i]).label] = ParseLine(lines[last]).value

\* C23 witness: the label "Name" on a colon line, a dotted line and a space-separated
\* line, with three values: the mapping holds the value of the third line
C23_Witness ==
    /\ pc = "parsed"
    /\ user_text = sName \o sColonSpace \o sAli \o sNewline \o sName \o sDots \o sKhan
                   \o sNewline \o sName \o s_John
    /\ raw_user_data = (sName :> sJohn)

(***************************************************************************)
(* Specification of the flat-label enumeration: every one-page form of at  *)
(* most MaxFormPieces pieces                                               *)
(***************************************************************************)
MaxFormPieces == 4
FormPieces == {sOrdinal, sFather, sApostropheS, s_NameColon, sDate, sColon, sNewline, sSpace}

InitLabels ==
    /\ pc = "form"
    /\ fault = "none"
    /\ \E text \in Joined(FormPieces, MaxFormPieces) : form_pages = <<text>>
    /\ labels = {}
    /\ user_text = <<>>
    /\ raw_user_data = EmptyData
    /\ content = <<>>
    /\ field_mapping = Mapping("dict", EmptyDict)
    /\ final_user_data = EmptyDict
    /\ coords_map = EmptyDict
    /\ stamped = EmptyDict
    /\ AcroIdle
    /\ OtherIdle

NextLabels == ExtractLabels
SpecLabels == InitLabels /\ [][NextLabels]_vars

\* C7: the form line "3. Father's Name:" yields the label "Father's Name"
C7_FathersNameLabel ==
    (pc = "enumerated" /\ form_pages = <<sOrdinal \o sFather \o sApostropheS \o s_NameColon>>)
    => sFathersName \in labels

(***************************************************************************)
(* Specification of the field mapper and the stages after it: every        *)
(* response of at most MaxResponsePieces pieces, or a call that raises     *)
(***************************************************************************)
MaxResponsePieces == 4
ResponsePieces == {sOpen, sClose, sXFirst, sXQuoted, sComma, sZNull, sZNone, sNotJson,
                   sNewline}
Responses == Joined(ResponsePieces, MaxResponsePieces)

InitMapper ==
    /\ pc = "parsed"
    /\ fault = "none"
    /\ form_pages = <<ReconForm>>
    /\ labels = extract_labels_from_text(form_pages)
    /\ user_text = <<>>
    /\ raw_user_data = BaseData
    /\ content = <<>>
    /\ field_mapping = Mapping("dict", EmptyDict)
    /\ final_user_data = EmptyDict
    /\ coords_map = EmptyDict
    /\ stamped = EmptyDict
    /\ AcroIdle
    /\ OtherIdle

NextMapper ==
    GetFieldMapping(Responses) \/ Reconstruct \/ FillFlat \/ Save(1) \/ HandBack(1)
SpecMapper == InitMapper /\ [][NextMapper]_vars

\* the completion call returned: content is the model's response
ResponseReceived == pc # "parsed" /\ fault # "inference"

\* the index of the "}" that closes the braces open at index i, depth of them being open
RECURSIVE CloseOf(_, _, _)
CloseOf(s, i, depth) ==
    IF i > Len(s) THEN 0
    ELSE IF s[i] = "{" THEN CloseOf(s, i + 1, depth + 1)
    ELSE IF s[i] = "}" THEN (IF depth = 1 THEN i ELSE CloseOf(s, i + 1, depth - 1))
    ELSE CloseOf(s, i + 1, depth)

\* the first balanced {...} substring of a text (<<>>: none)
FirstBalanced(s) ==
    LET starts == {a \in DOMAIN s : s[a] = "{" /\ CloseOf(s, a + 1, 1) > 0}
    IN IF starts = {} THEN <<>>
       ELSE LET a == CHOOSE x \in starts : \A y \in starts : x <= y
            IN SubSeq(s, a, CloseOf(s, a + 1, 1))

\* C8: the mapper parses only the first balanced {...} substring of the response:
\* the mapping is what that substring alone gives, whatever follows it
C8_OnlyFirstBalancedObject ==
    ResponseReceived => field_mapping = ParseResponse(FirstBalanced(content))

\* the members of a JSON object after "{" or ",": string ":" (string | null)
RECURSIVE JsonMembers(_, _, _)
JsonMembers(toks, i, d) ==
    IF /\ TokIs(toks, i, "str") /\ TokIs(toks, i + 1, ":")
       /\ \/ TokIs(toks, i + 2, "str")
          \/ TokIs(toks, i + 2, "name") /\ toks[i + 2].s = sNull
    THEN LET v == IF toks[i + 2].k = "str" THEN PyStr(toks[i + 2].s) ELSE PyNone
             d2 == (PyStr(toks[i].s) :> v) @@ d
         IN IF TokIs(toks, i + 3, "}") /\ i + 3 = Len(toks) THEN [ok |-> TRUE, d |-> d2]
            ELSE IF TokIs(toks, i + 3, ",") THEN JsonMembers(toks, i + 4, d2)
            ELSE [ok |-> FALSE, d |-> EmptyDict]
    ELSE [ok |-> FALSE, d |-> EmptyDict]

\* a text as a JSON object of strings and nulls: [ok, d], null being None
JsonObject(s) ==
    LET toks == PyTokens(s, 1, 0)
    IN IF "'" \in Range(s) \/ ~TokIs(toks, 1, "{") THEN [ok |-> FALSE, d |-> EmptyDict]
       ELSE IF Len(toks) = 2 /\ TokIs(toks, 2, "}") THEN [ok |-> TRUE, d |-> EmptyDict]
       ELSE JsonMembers(toks, 2, EmptyDict)

\* C9: a response that contains a well-formed JSON object of strings and nulls makes
\* the mapper return that mapping, each null entry present with the value None
C9_JsonObjectReturned ==
    (ResponseReceived /\ JsonObject(FirstBalanced(content)).ok)
    => field_mapping = Mapping("dict", JsonObject(FirstBalanced(content)).d)

\* the response is malformed: it has no brace-delimited part, or its brace-delimited
\* part is no object: no JSON object, and without a "key: value" pair in any quotes
Malformed(response) ==
    LET part == FirstBalanced(response)
        toks == PyTokens(part, 1, 0)
    IN \/ part = <<>>
       \/ /\ ~JsonObject(part).ok
          /\ \A i \in DOMAIN toks : toks[i].k # ":"

\* C10: a malformed response makes the mapper return the empty mapping without
\* raising, and the reconstruct and fill steps after it do not raise and write no slot
C10_MalformedResponseFillsNothing ==
    (ResponseReceived /\ Malformed(content))
    => /\ field_mapping = Mapping("dict", EmptyDict)
       /\ fault \notin {"reconstruct", "fill"}
       /\ final_user_data = EmptyDict
       /\ stamped = EmptyDict

(***************************************************************************)
(* Specification of the reconstructor and the flat-form filler on forms    *)
(* whose labels stand on several lines and pages: every form of at most    *)
(* MaxFillPages pages, every mapping of the slots "X", "Z", "" and " "     *)
(***************************************************************************)
MaxFillPages == 2
PagePool == {<<"X",":","\n","x"," ","Z",":","\n","Z",":">>, <<"Z",":","\n","X",":">>,
             <<"h","e","l","l","o">>, <<>>}
FillForms == UNION {[1..n -> PagePool] : n \in 1..MaxFillPages}
FillSlots == {PyStr(sX), PyStr(sZ), PyStr(<<>>), PyStr(sSpace)}
FillMappings == UNION {[S -> {PyStr(sFirst), PyStr(sLast)}] : S \in SUBSET FillSlots}

InitFill ==
    /\ pc = "mapped"
    /\ fault = "none"
    /\ form_pages \in FillForms
    /\ labels = extract_labels_from_text(form_pages)
    /\ user_text = <<>>
    /\ raw_user_data = BaseData
    /\ content = <<>>
    /\ \E d \in FillMappings : field_mapping = Mapping("dict", d)
    /\ final_user_data = EmptyDict
    /\ coords_map = EmptyDict
    /\ stamped = EmptyDict
    /\ AcroIdle
    /\ OtherIdle

NextFill == Reconstruct \/ FillFlat \/ Save(1) \/ HandBack(1)
SpecFill == InitFill /\ [][NextFill]_vars

\* C25: for each label only the first line of a page whose text contains the label
\* (case-insensitively) gives the label's coordinate; later lines of that page with
\* the label are ignored, and each label has one stamp
C25_FirstLineOfPage ==
    pc = "filled"
    => \A k \in DOMAIN stamped :
           LET lines == PageLines(form_pages[stamped[k].at.page + 1])
           IN /\ stamped[k].at.line \in Qualifying(k.s, lines)
              /\ \A y \in Qualifying(k.s, lines) : stamped[k].at.line <= y
              /\ stamped[k].at = coords_map[k]

\* C25 witness: the label "X" is on the first and the second line of the page and
\* its value is stamped at the first
C25_Witness ==
    /\ pc = "filled"
    /\ form_pages = <<<<"X",":","\n","x"," ","Z",":","\n","Z",":">>>>
    /\ PyStr(sX) \in DOMAIN stamped
    /\ stamped[PyStr(sX)].at.line = 1
    /\ Qualifying(sX, PageLines(form_pages[1])) = {1, 2}

\* C27: a label with qualifying lines on several pages is stamped once, at the first
\* qualifying line of the lowest-indexed page that has one
C27_LowestPageWins ==
    pc = "filled"
    => \A k \in DOMAIN stamped :
           /\ \A p \in PagesWith(k.s, form_pages) : stamped[k].at.page + 1 <= p
           /\ \A y \in Qualifying(k.s, PageLines(form_pages[stamped[k].at.page + 1])) :
                  stamped[k].at.line <= y

\* C28: the flat-form filler completes without raising for every table the mapper
\* and the reconstructor can produce, a slot name that is empty, whitespace-only or
\* on no line of the form included
C28_FillCompletes ==
    ~(pc = "raised" /\ fault = "fill")

(***************************************************************************)
(* Specification of the search history: every sequence of at most MaxAdds  *)
(* calls of add_to_history, from the empty history                         *)
(***************************************************************************)
\* the pipeline variables of a state in which no fill operation runs
PipelineIdle ==
    /\ pc = "idle"
    /\ fault = "none"
    /\ form_pages = <<>>
    /\ labels = {}
    /\ user_text = <<>>
    /\ raw_user_data = EmptyData
    /\ content = <<>>
    /\ field_mapping = Mapping("dict", EmptyDict)
    /\ final_user_data = EmptyDict
    /\ coords_map = EmptyDict
    /\ stamped = EmptyDict
    /\ AcroIdle

pipeline == <<pc, fault, form_pages, labels, user_text, raw_user_data, content,
              field_mapping, final_user_data, coords_map, stamped, acro, label_list,
              form_resp>>

MaxAdds == 12
HistoryEntries == {[country |-> "Pakistan", query |-> "income tax return", pdf_url |-> "u1"],
                   [country |-> "India", query |-> "income tax return", pdf_url |-> "u2"]}

\* one call add_to_history(country, query, pdf_url)
AddToHistory(entries) ==
    /\ Len(added) < MaxAdds
    /\ \E e \in entries :
          /\ session_state' = [session_state EXCEPT
                                  !.search_history = add_to_history(@, e)]
          /\ added' = Append(added, e)
    /\ UNCHANGED <<pipeline, fetch, server, ops, disk>>

InitHistory == PipelineIdle /\ OtherIdle
NextHistory == AddToHistory(HistoryEntries)
SpecHistory == InitHistory /\ [][NextHistory]_vars

\* C26: from the empty history, after any sequence of add_to_history calls the
\* history holds at most 10 entries, and they are the most recently added
\* min(n, 10) entries in the order of their insertion
C26_HistoryIsLastTen ==
    LET n == Len(added)
        h == session_state.search_history
    IN /\ Len(h) <= 10
       /\ Len(h) = (IF n < 10 THEN n ELSE 10)
       /\ h = SubSeq(added, n - Len(h) + 1, n)

\* C26 witness: twelve entries were added, of different kinds, and the history holds
\* the last ten
C26_Witness ==
    /\ Len(added) = 12
    /\ added[2] # added[3]
    /\ added[3] # added[12]
    /\ Len(session_state.search_history) = 10
    /\ session_state.search_history[1] = added[3]

(***************************************************************************)
(* Specification of the PDF fetcher: every arrangement of the answers of   *)
(* the URLs "u1", "u2" and "u3", chains and cycles of HTML pages included. *)
(* A call that has started runs on: the fair specification lets the fetch  *)
(* take its next step whenever it has one.                                 *)
(***************************************************************************)
Urls == {"u1", "u2", "u3"}
Answers == {Answer(200, TRUE, <<>>),
            Answer(404, FALSE, <<>>),
            EmptyAnswer(0, FALSE),
            EmptyAnswer(200, FALSE),
            Answer(200, FALSE, <<>>),
            Answer(200, FALSE, <<Link("u3", FALSE, TRUE)>>),
            Answer(200, FALSE, <<Link("u1", TRUE, FALSE)>>),
            Answer(200, FALSE, <<Link("u2", TRUE, FALSE)>>),
            Answer(200, FALSE, <<Link("u1", TRUE, FALSE), Link("u3", TRUE, TRUE)>>)}

\* one request of the running call fetch_pdf(url), with what follows from its answer
FetchPdf ==
    /\ fetch.pc \in {"fetching", "scanning"}
    /\ fetch' = fetch_pdf(fetch, server)
    /\ UNCHANGED <<pipeline, server, session_state, added, ops, disk>>

InitFetch ==
    /\ PipelineIdle
    /\ label_list = <<>>
    /\ form_resp = Response(200, "pdf")
    /\ server \in [Urls -> Answers]
    /\ fetch = [NoFetch EXCEPT !.pc = "fetching"]
    /\ session_state = NoSession
    /\ added = <<>>
    /\ ops = [o \in Operations |-> NoOperation]
    /\ disk = [p \in OutputPaths |-> NoDocument]

NextFetch == FetchPdf
SpecFetch == InitFetch /\ [][NextFetch]_vars /\ WF_vars(FetchPdf)

\* C29: for every arrangement of server answers, a chain or a cycle of HTML pages
\* with .pdf links included, fetch_pdf returns after finitely many requests, with
\* the bytes of a PDF or with no bytes
C29_FetchTerminates ==
    <>(fetch.pc = "returned" /\ fetch.result \in Urls \cup {"none"})

\* C29 witness: on a cycle of two HTML pages that link to each other the call has
\* returned without bytes after one request at each depth
C29_Witness ==
    /\ fetch.pc = "returned"
    /\ fetch.result = "none"
    /\ fetch.requests = RecursionLimit
    /\ find_pdf_in_html_page("u1", Text(server["u1"]), server).link = "u2"
    /\ find_pdf_in_html_page("u2", Text(server["u2"]), server).link = "u1"

(***************************************************************************)
(* Specification of the session: the "Try Form" buttons of                 *)
(* suggest_other_forms, from every list of search results with one of them *)
(* selected and its PDF in hand                                            *)
(***************************************************************************)
SearchResults ==
    {q \in UNION {[1..n -> {"r1", "r2", "r3", "r4"}] : n \in 1..4} :
         \A i, j \in DOMAIN q : q[i] = q[j] => i = j}
    \cup {Results, SubSeq(Results, 1, 5)}

\* a click on the button "Try Form #idx+1": the result is fetched and, when the fetch
\* gave bytes, put in hand
TryForm ==
    /\ session_state.search_results # <<>>
    /\ session_state.selected_pdf # -1
    /\ LET other_forms == OtherForms(session_state.search_results, 1,
                                     session_state.selected_pdf)
       IN \E idx \in 0..(Len(other_forms) - 1) :
              \E pdf_bytes \in {other_forms[idx + 1], "none"} :
                  IF pdf_bytes # "none"
                  THEN session_state' = [session_state EXCEPT
                                            !.pdf_bytes = pdf_bytes,
                                            !.selected_pdf = idx,
                                            !.form_fields = extract_form_fields(pdf_bytes)]
                  ELSE UNCHANGED session_state
    /\ UNCHANGED <<pipeline, fetch, server, added, ops, disk>>

InitSession ==
    /\ PipelineIdle
    /\ label_list = <<>>
    /\ form_resp = Response(200, "pdf")
    /\ fetch = NoFetch
    /\ server = [u \in {"u1"} |-> EmptyAnswer(0, FALSE)]
    /\ \E q \in SearchResults : \E selected \in DOMAIN q :
           session_state = [NoSession EXCEPT !.search_results = q,
                                             !.selected_pdf = selected - 1,
                                             !.pdf_bytes = q[selected],
                                             !.form_fields = extract_form_fields(q[selected])]
    /\ added = <<>>
    /\ ops = [o \in Operations |-> NoOperation]
    /\ disk = [p \in OutputPaths |-> NoDocument]

NextSession == TryForm
SpecSession == InitSession /\ [][NextSession]_vars

\* C30: after any sequence of "Try Form" clicks, selected_pdf is the index within
\* search_results of the result whose PDF is held in pdf_bytes, and form_fields are
\* the fields extracted from that PDF
C30_SelectionMatchesPdf ==
    /\ session_state.selected_pdf + 1 \in DOMAIN session_state.search_results
    /\ session_state.search_results[session_state.selected_pdf + 1] = session_state.pdf_bytes
    /\ session_state.form_fields = extract_form_fields(session_state.pdf_bytes)

(***************************************************************************)
(* Specification of two fill operations at the same time: each has filled  *)
(* its own copy of the form with its own user's values, in either branch,  *)
(* and the opens, the writes, the saves and the hand-backs interleave in    *)
(* every order                                                             *)
(***************************************************************************)
UserValues == [o \in Operations |-> IF o = 1 THEN {sAli, sJohn} ELSE {sKhan, sJohnSmith}]

\* the document an operation has filled for the file of its branch: the form with the
\* one slot X, filled with the user's value
FilledDocument(path, value) ==
    IF path = "filled_form.pdf"
    THEN fill_pdf_acroform(<<{sX}>>, sX :> value)
    ELSE auto_fill_flat_pdf_smart(<<sX \o <<":">>>>, PyStr(sX) :> PyStr(value)).saved

InitConcurrent ==
    /\ PipelineIdle
    /\ label_list = <<>>
    /\ form_resp = Response(200, "pdf")
    /\ fetch = NoFetch
    /\ server = [u \in {"u1"} |-> EmptyAnswer(0, FALSE)]
    /\ session_state = NoSession
    /\ added = <<>>
    /\ \E paths \in [Operations -> OutputPaths] :
           \E values \in [Operations -> UNION {UserValues[o] : o \in Operations}] :
               /\ \A o \in Operations : values[o] \in UserValues[o]
               /\ ops = [o \in Operations |->
                            Filling(paths[o], FilledDocument(paths[o], values[o]))]
    /\ disk = [p \in OutputPaths |-> NoDocument]

NextConcurrent == \E o \in Operations : Open(o) \/ Write(o) \/ Save(o) \/ HandBack(o)
SpecConcurrent == InitConcurrent /\ [][NextConcurrent]_vars

\* C22: two fill operations at the same time share no resource: in every
\* interleaving the file an operation hands back is its own document, with its own
\* user's values only
C22_NoSharedResource ==
    \A o \in Operations : ops[o].pc = "done" => ops[o].handed = FileOf(ops[o].values)

(***************************************************************************)
(* Specification of the whole fill operation on a flat form                *)
(***************************************************************************)
\* the forms: flat one-page and two-page forms, a form without a label, and AcroForm
\* documents of one and two pages (their first page has a field)
FlatForms == {<<ReconForm>>,
              <<<<"F","i","r","s","t",":","\n","L","a","s","t",":">>, <<"X",":"," ","Z",":">>>>,
              <<<<"h","e","l","l","o">>>>}
AcroForms == {<<{sX}>>, <<{sX}, {sZ}>>}
\* the uploaded documents: with embedded text, scanned (blank embedded text, text on
\* the page image), empty, and bytes that are no PDF
Documents == {PdfFile(TRUE, <<sFirst \o sColonSpace \o sAli \o sNewline \o sLast \o sColonSpace \o sKhan>>, <<<<>>>>),
              PdfFile(TRUE, <<sFullName \o s_John \o s_Smith>>, <<<<>>>>),
              PdfFile(TRUE, <<sX \o sColonSpace \o sAli, sZ \o sColonSpace \o sKhan>>, <<<<>>, <<>>>>),
              PdfFile(TRUE, <<sSpace>>, <<sX \o sColonSpace \o sAli>>),
              PdfFile(TRUE, <<<<>>>>, <<<<>>>>),
              PdfFile(FALSE, <<>>, <<>>)}
ManualInputs == {sAli, sKhan}
PipelineResponses == {<<"{","\"","X","\"",":"," ","\"","F","i","r","s","t","\"","}">>,
                      <<"{","'","X","'",":"," ","\"","F","i","r","s","t"," ","+"," ","'"," ","'"," ","+"," ","L","a","s","t","\"",","," ","'","Z","'",":"," ","N","o","n","e","}">>,
                      <<"n","o","t"," ","j","s","o","n">>,
                      <<"{","\"","Z","\"",":"," ","n","u","l","l","}">>,
                      <<"{","'","X","'","}">>,
                      <<"{","\n"," ","\"","X","\"",":"," ","\"","F","i","r","s","t","\"","\n","}","\n">>,
                      <<"{","'","X","'",":"," ","'","X","'",","," ","'","Z","'",":"," ","'","Z","'","}">>}

\* the other run of main() in the directory: none, or one that has filled user 2's
\* document for the file of path p
OtherRun(p) == IF p = "none" THEN NoOperation ELSE Filling(p, FilledDocument(p, sKhan))

Init ==
    /\ pc = "download"
    /\ fault = "none"
    /\ \/ /\ form_pages \in FlatForms
          /\ form_fields = NoFields(form_pages)
       \/ /\ form_fields \in AcroForms
          /\ form_pages = [i \in DOMAIN form_fields |-> <<>>]
    /\ labels = {}
    /\ user_text = <<>>
    /\ raw_user_data = EmptyData
    /\ content = <<>>
    /\ field_mapping = Mapping("dict", EmptyDict)
    /\ final_user_data = EmptyDict
    /\ coords_map = EmptyDict
    /\ stamped = EmptyDict
    /\ acro_fields = {}
    /\ uploaded_file = NoFile
    /\ acro_text = <<>>
    /\ acro_user_data = EmptyData
    /\ filled_pdf = NoPdf
    /\ label_list = <<>>
    /\ form_resp = Response(200, "pdf")
    /\ fetch = NoFetch
    /\ server = [u \in {"u1"} |-> EmptyAnswer(0, FALSE)]
    /\ session_state = NoSession
    /\ added = <<>>
    /\ \E p \in {"none"} \cup OutputPaths :
           ops = [o \in Operations |-> IF o = 1 THEN NoOperation ELSE OtherRun(p)]
    /\ disk = [p \in OutputPaths |-> NoDocument]

Next ==
    \/ Download(FormResponses)
    \/ EnumerateAcroFields
    \/ EnterManually(ManualInputs)
    \/ UploadInfo(Documents)
    \/ FillAcro
    \/ ExtractLabels
    \/ Upload(Documents)
    \/ ExtractAllFields
    \/ GetFieldMapping(PipelineResponses)
    \/ Reconstruct
    \/ FillFlat
    \/ \E o \in Operations : Open(o) \/ Write(o) \/ Save(o) \/ HandBack(o)

Spec == Init /\ [][Next]_vars

(***************************************************************************)
(* Claims about the fill operation (Spec)                                  *)
(***************************************************************************)
\* C11: when the inference call raises, the field mapper recovers with the empty
\* mapping: the operation never ends with what the inference call raised
C11_InferenceFailureRecovered ==
    pc = "raised" => fault # "inference"

\* C14: on either path the stages come in the order Enumerated, Mapped,
\* Reconstructed, Filled: Filled is entered from Reconstructed only, Reconstructed
\* from Mapped only, and Mapped only after the enumeration
C14_StageOrder ==
    [][/\ (pc' = "filled" /\ pc # "filled") => pc = "reconstructed"
       /\ (pc' = "reconstructed" /\ pc # "reconstructed") => pc = "mapped"
       /\ (pc' = "mapped" /\ pc # "mapped") => pc = "parsed"]_vars

\* C15: an AcroForm fill with a table of present field names leaves the page count
\* and the enumerated field count of the document unchanged
C15_AcroFillPreservesStructure ==
    (filled_pdf.written /\ DOMAIN acro_user_data \subseteq acro_fields)
    => /\ filled_pdf.pages = Len(form_fields)
       /\ Cardinality(filled_pdf.fields) = Cardinality(extract_acroform_fields(form_fields))

\* C16: a fill pass skips a slot without a coordinate match or a field of its name
\* without error, and writes every other slot of the table, on whichever page
C16_FillFailurePerSlot ==
    /\ fault # "fill"
    /\ (pc = "filled" /\ filled_pdf.written)
       => \A f \in DOMAIN acro_user_data \cap acro_fields :
              f \in DOMAIN filled_pdf.values /\ filled_pdf.values[f] = acro_user_data[f]
    /\ (pc = "filled" /\ ~filled_pdf.written)
       => \A k \in DOMAIN final_user_data :
              PagesWith(k.s, form_pages) # {}
              => k \in DOMAIN stamped /\ stamped[k].text = str(final_user_data[k])

\* C17: whatever stage fails, the operation does not abort with a raised error
C17_NeverAborts ==
    pc # "raised"

\* C18: the text extractor never raises: on bytes that are no PDF, or without an OCR
\* engine, the caller gets empty text
C18_ExtractorNeverRaises ==
    uploaded_file.uploaded
    => /\ fault \notin {"extraction", "ocr"}
       /\ ~uploaded_file.readable => (user_text = <<>> /\ acro_text = <<>>)

\* C19: on either path a blank embedded text is followed by the OCR pass, and the
\* OCR text is what goes on to the extraction of the user data
C19_OcrFallbackOnEveryPath ==
    (/\ uploaded_file.uploaded
     /\ pc # "raised"
     /\ IsBlank(JoinNewline(uploaded_file.pages)))
    => IF acro_fields # {}
       THEN acro_text = JoinNewline(uploaded_file.scan)
       ELSE user_text = JoinNewline(uploaded_file.scan)

\* the field mapper has been called
MapperCalled ==
    \/ pc \in {"mapped", "reconstructed", "filled"}
    \/ fault \in {"inference", "reconstruct", "fill"}
    \/ (fault = "download" /\ ops[1].path = "smart_filled_form.pdf")

\* C20: a form with no AcroForm field and no flat label ends the operation with
\* "no fillable slots": the mapping, reconstruction and fill stages are not entered
C20_NoFillableSlotsReported ==
    (pc # "form" /\ acro_fields = {} /\ labels = {}) => ~MapperCalled

\* C21: whenever the GET of the form answers a status other than 200, or raises, the
\* operation holds no form: it stays before the enumeration and nothing is read
\* from the response body
C21_BytesOnlyOnSuccess ==
    form_resp.status # 200 => pc \in {"download", "no_form"}

\* C24: the list returned by extract_labels_from_text holds no label twice, and every
\* label in it has at least 2 characters, is trimmed, and is the trimmed text of a
\* match of the label pattern on some line of the form
C24_LabelListDistinctAndMatched ==
    pc = "enumerated"
    => /\ \A i, j \in DOMAIN label_list : label_list[i] = label_list[j] => i = j
       /\ \A i \in DOMAIN label_list :
              /\ Len(label_list[i]) >= 2
              /\ Strip(label_list[i]) = label_list[i]
              /\ \E p \in DOMAIN form_pages : \E l \in DOMAIN SplitLines(form_pages[p]) :
                     LET matches == FindAllLabels(SplitLines(form_pages[p])[l], 1)
                     IN \E m \in DOMAIN matches : Strip(matches[m]) = label_list[i]

\* C24 witness: a line on which the label "Date" is matched twice, listed once
C24_Witness ==
    /\ pc = "enumerated"
    /\ form_pages = <<sDate \o sColon \o sDate \o sColon>>
    /\ label_list = <<sDate>>
====
